---- MODULE Spec2Model ----
(***************************************************************************)
(* A model of sitectl's context-transparent execution layer:               *)
(*   - cmd/port-forward (RunE and forward)                                 *)
(*   - config.Context.RunCommand, ReadSmallFile, ProjectDirExists,         *)
(*     UploadFile                                                          *)
(*   - docker.GetDockerCli / DockerClient.Close / Exec and its callers     *)
(* One process runs one command; `op` says which one.                      *)
(***************************************************************************)
EXTENDS Integers, Sequences, FiniteSets, TLC

VARIABLES
    op,          \* the command this process runs
    kind,        \* Context.DockerHostType: "local" | "remote"
    goos,        \* runtime.GOOS
    args,        \* the arguments of the call, for the commands that are one function call
    printed,     \* the lines DialSSH wrote to standard output
    cfgFile,     \* ~/.sitectl/config.yaml: [current, contexts]
    ssh,         \* every *ssh.Client dialed so far: <<[closes |-> n]>>; open iff closes = 0
    dials,       \* number of DialSSH attempts (successful or not)
    \* ---- port-forward ----
    pfArgs,      \* the args the setup loop has not finished yet (the head is the current one)
    pfPc,        \* position of RunE
    pfI,         \* index of the shutdown loop into listeners
    pfCur,       \* locals of the current loop iteration
    pfErr,       \* RunE's return value ("none" while it runs)
    lst,         \* the listeners slice: every listener net.Listen returned, in order,
                 \* each with its accept loop (loop, its lp and remoteAddr arguments, its err)
    sshCli,      \* cli.SshCli: 0 is the nil pointer, k > 0 is ssh[k]; -1 before GetDockerCli
    sigPending,  \* a signal sits in the `done` channel
    conns,       \* the connections Accept returned that are not closed yet, each with its forward goroutine
    errLog,      \* the distinct lines written to os.Stderr
    \* ---- the sequential commands (RunCommand, the file helpers, the exec helpers) ----
    pc,          \* position of the call chain
    conn,        \* the chain's own *ssh.Client: an index into ssh, 0 when it has none
    ret,         \* what the call returned: [out, err]
    \* ---- RunCommand ----
    rcProduced,  \* everything the command writes to its output
    rcExit,      \* the exit status of the command
    rcRest,      \* the output not read yet
    rcOutput,    \* the local variable `output`
    rcWait,      \* what session.Wait returned
    isTTY,       \* term.IsTerminal(os.Stdin)
    termMode,    \* the mode of the local terminal: "cooked" | "raw"
    oldState,    \* the state term.MakeRaw returned, "none" before
    \* ---- DockerClient.Exec ----
    exStdin,     \* the bytes opts.Stdin has to offer
    exSessIn,    \* the bytes written to resp.Conn, the input of the exec session
    exFrames,    \* the frames the daemon sends on the attached stream: <<[id, payload]>>
    exCode,      \* the exit code the daemon reports for the exec
    exIn,        \* resp.Reader: the bytes of the stream not read yet
    exOut,       \* the bytes written to opts.Stdout
    exErr,       \* the bytes written to opts.Stderr
    exCalls      \* the Docker API calls Exec has made, in order, each with its error

(***************************************************************************)
(* Bounds                                                                  *)
(***************************************************************************)
MaxSpecs == 2
MaxConns == 2

(***************************************************************************)
(* Strings are sequences of one-character strings.                         *)
(***************************************************************************)
Digits == {"0", "1", "2", "3", "4", "5", "6", "7", "8", "9"}

DigitVal(c) ==
    CASE c = "0" -> 0 [] c = "1" -> 1 [] c = "2" -> 2 [] c = "3" -> 3 [] c = "4" -> 4
      [] c = "5" -> 5 [] c = "6" -> 6 [] c = "7" -> 7 [] c = "8" -> 8 [] c = "9" -> 9

\* strings.Split(s, sep) for a one-character separator
RECURSIVE SplitAcc(_, _, _, _)
SplitAcc(s, sep, cur, acc) ==
    IF s = <<>> THEN Append(acc, cur)
    ELSE IF Head(s) = sep THEN SplitAcc(Tail(s), sep, <<>>, Append(acc, cur))
    ELSE SplitAcc(Tail(s), sep, Append(cur, Head(s)), acc)

Split(s, sep) == SplitAcc(s, sep, <<>>, <<>>)

\* strconv.Atoi: an optional sign, then at least one digit, nothing else
AtoiBody(s) == IF s # <<>> /\ Head(s) \in {"+", "-"} THEN Tail(s) ELSE s

AtoiOk(s) ==
    /\ AtoiBody(s) # <<>>
    /\ \A k \in 1..Len(AtoiBody(s)) : AtoiBody(s)[k] \in Digits

RECURSIVE DigitsVal(_, _)
DigitsVal(s, acc) == IF s = <<>> THEN acc ELSE DigitsVal(Tail(s), 10 * acc + DigitVal(Head(s)))

AtoiVal(s) == IF s # <<>> /\ Head(s) = "-" THEN 0 - DigitsVal(AtoiBody(s), 0) ELSE DigitsVal(AtoiBody(s), 0)

(***************************************************************************)
(* The forward specs the command may be given.                             *)
(***************************************************************************)
ArgPool ==
    { <<"1", ":", "a", ":", "8">>,            \* valid
      <<"2", ":", "b", ":", "9">>,            \* valid
      <<"1", ":", "b", ":", "9">>,            \* valid, same local port as the first
      <<"2", ":", "a">>,                      \* two segments
      <<"2", ":", "a", ":", "8", ":", "9">>,  \* four segments
      <<"x", ":", "a", ":", "8">>,            \* local port not an integer
      <<"2", ":", "a", ":", "y">>,            \* remote port not an integer
      <<"2", ":", "c", ":", "9">>,            \* no container for service c
      <<"2", ":", "d", ":", "9">> }           \* container off the default network

RECURSIVE SeqsUpTo(_, _)
SeqsUpTo(S, n) ==
    IF n = 0 THEN {<<>>}
    ELSE SeqsUpTo(S, n - 1) \cup {Append(q, x) : q \in SeqsUpTo(S, n - 1), x \in S}

(***************************************************************************)
(* Errors                                                                  *)
(***************************************************************************)
\* the value `nil` of an error
Nil == "nil"

\* the error a failing Docker API call returns
ApiErr == "api error"

\* fmt.Errorf("<what>: %v", err)
Wrap(what, err) == what \o ": " \o err

\* a string of the program, from its characters
RECURSIVE Str(_)
Str(s) == IF s = <<>> THEN "" ELSE Head(s) \o Str(Tail(s))

(***************************************************************************)
(* The Docker daemon of the context, as the Docker API reports it:         *)
(* [up, containers], each container [names, labels, mounts, env, networks] *)
(***************************************************************************)
ProjectLabel(project) == "com.docker.compose.project=" \o project
ServiceLabel(service) == "com.docker.compose.service=" \o service

\* a container of a compose project
Ctr(name, project, service, mounts, env, networks) ==
    [names |-> <<name>>, labels |-> {ProjectLabel(project), ServiceLabel(service)},
     mounts |-> mounts, env |-> env, networks |-> networks]

\* cli.ContainerList(ctx, ListOptions{Filters}): the containers that carry every
\* label of the filter, in the daemon's order
ContainerList(daemon, labels) ==
    IF ~daemon.up THEN [err |-> ApiErr, list |-> <<>>]
    ELSE [err |-> Nil, list |-> SelectSeq(daemon.containers, LAMBDA c : labels \subseteq c.labels)]

\* the containers of the daemon called `name`
Named(daemon, name) ==
    SelectSeq(daemon.containers, LAMBDA c : \E k \in 1..Len(c.names) : c.names[k] = name)

\* cli.ContainerInspect(ctx, name)
ContainerInspect(daemon, name) ==
    IF daemon.up /\ Named(daemon, name) # <<>>
    THEN [err |-> Nil, json |-> Head(Named(daemon, name))]
    ELSE [err |-> ApiErr, json |-> [names |-> <<>>]]

\* a GetContainerName that suffixes the profile whatever neverPrefixProfile says
ServiceOfAlwaysPrefixed(c, service, neverPrefixProfile) ==
    IF c.profile # "" THEN service \o "-" \o c.profile ELSE service

\* if c.Profile != "" && !neverPrefixProfile { service = service + "-" + c.Profile }
ServiceOf(c, service, neverPrefixProfile) ==
    IF c.profile # "" /\ ~neverPrefixProfile THEN service \o "-" \o c.profile ELSE service

\* the loops over containers and container.Names: the first name there is
RECURSIVE FirstName(_)
FirstName(list) ==
    IF list = <<>> THEN ""
    ELSE IF Head(list).names # <<>> THEN Head(Head(list).names)
    ELSE FirstName(Tail(list))

\* DockerClient.GetContainerName: [val, err]
GetContainerName(daemon, c, service, neverPrefixProfile) ==
    LET r == ContainerList(daemon, {ProjectLabel(c.project),
                                    ServiceLabel(ServiceOf(c, service, neverPrefixProfile))})
    IN IF r.err # Nil THEN [val |-> "", err |-> r.err]
       ELSE [val |-> FirstName(r.list), err |-> Nil]

\* a network named as the project, without the _default suffix
NetworkNameProject(c) == c.project

\* fmt.Sprintf("%s_default", c.ProjectName)
NetworkName(c) == c.project \o "_default"

\* the entries of a container's networks called net: none or one
NetworkOf(json, net) == {n \in json.networks : n.net = net}

\* DockerClient.GetServiceIp: [err, ip]
GetServiceIp(daemon, c, containerName) ==
    LET r == ContainerInspect(daemon, containerName)
    IN IF r.err # Nil
       THEN [err |-> Wrap("error inspecting container", r.err), ip |-> ""]
       ELSE IF NetworkOf(r.json, NetworkName(c)) = {}
       THEN [err |-> "network " \o NetworkName(c) \o " not found in container", ip |-> ""]
       ELSE [err |-> Nil, ip |-> (CHOOSE n \in NetworkOf(r.json, NetworkName(c)) : TRUE).ip]

\* the context and the daemon port-forward runs against: services a and b run on
\* the project's default network, d off it, c not at all
PFContext == [project |-> "p", profile |-> ""]

PFDaemon ==
    [up |-> TRUE,
     containers |-> << Ctr("ca", "p", "a", <<>>, <<>>, {[net |-> "p_default", ip |-> "ipA"]}),
                       Ctr("cb", "p", "b", <<>>, <<>>, {[net |-> "p_default", ip |-> "ipB"]}),
                       Ctr("cd", "p", "d", <<>>, <<>>, {[net |-> "bridge", ip |-> "ipD"]}) >>]

(***************************************************************************)
(* SSH connections and the Docker handle                                   *)
(***************************************************************************)
NewConn == [closes |-> 0]

IsOpen(s, k) == k \in 1..Len(s) /\ s[k].closes = 0

\* (*ssh.Client).Close on connection k
CloseConn(s, k) == [s EXCEPT ![k].closes = @ + 1]

\* a Close that releases the HTTP client only
DockerClientCloseHttpOnly(s, cli) == s

\* DockerClient.Close: closes the SSH connection when the handle carries one
DockerClientClose(s, cli) == IF cli > 0 THEN CloseConn(s, cli) ELSE s

\* docker.GetDockerCli: the outcomes [err, ssh, dials, cli] it can have from (s, d)
GetDockerCliResults(s, d) ==
    IF kind = "local"
    THEN { [err |-> "nil", ssh |-> s, dials |-> d, cli |-> 0],
           [err |-> "client", ssh |-> s, dials |-> d, cli |-> -1] }
    ELSE { \* DialSSH fails
           [err |-> "dial", ssh |-> s, dials |-> d + 1, cli |-> -1],
           \* DialSSH succeeds, NewClientWithOpts fails: sshConn.Close()
           [err |-> "client", ssh |-> CloseConn(Append(s, NewConn), Len(s) + 1),
            dials |-> d + 1, cli |-> -1],
           \* the handle owns the connection
           [err |-> "nil", ssh |-> Append(s, NewConn), dials |-> d + 1, cli |-> Len(s) + 1] }

(***************************************************************************)
(* port-forward: RunE                                                      *)
(***************************************************************************)
NoCur == [lp |-> <<>>, service |-> <<>>, rport |-> 0]

\* an unused connection slot
NoConn == [st |-> "free", fwd |-> 0, client |-> -1, addr |-> <<>>, dialed |-> <<>>, peer |-> 0]

pfVars == <<pfArgs, pfPc, pfI, pfCur, pfErr, lst, sshCli, sigPending, conns, errLog>>
ctxVars == <<op, kind, goos, args>>
seqVars == <<pc, conn, ret>>
rcVarsButTerm == <<rcProduced, rcExit, rcRest, rcOutput, rcWait, isTTY, oldState>>
rcVars == <<rcProduced, rcExit, rcRest, rcOutput, rcWait, isTTY, termMode, oldState>>
vars == <<op, kind, goos, args, printed, cfgFile, ssh, dials, pfArgs, pfPc, pfI, pfCur, pfErr, lst, sshCli,
          sigPending, conns, errLog, pc, conn, ret, rcProduced, rcExit, rcRest, rcOutput,
          rcWait, isTTY, termMode, oldState, exStdin, exSessIn, exFrames, exCode, exIn, exOut, exErr, exCalls>>
exVars == <<exStdin, exSessIn, exFrames, exCode, exIn, exOut, exErr, exCalls>>
pfVarsButCli == <<pfArgs, pfPc, pfI, pfCur, pfErr, lst, sigPending, conns, errLog>>

\* Load() when the file cannot be read: &Config{}
EmptyConfig == [current |-> "", contexts |-> <<>>]

NoRet == [out |-> <<>>, err |-> "none"]
NoWait == [type |-> "none", status |-> 0]

\* the state of the parts of the process a command does not use
PFIdle ==
    /\ pfArgs = <<>> /\ pfPc = "idle" /\ pfI = 0 /\ pfCur = NoCur /\ pfErr = "none"
    /\ lst = <<>> /\ sshCli = -1 /\ sigPending = FALSE
    /\ conns = [c \in 1..MaxConns |-> NoConn] /\ errLog = {}

SeqIdle == pc = "idle" /\ conn = 0 /\ ret = NoRet

RCIdle ==
    /\ rcProduced = <<>> /\ rcExit = 0 /\ rcRest = <<>> /\ rcOutput = <<>> /\ rcWait = NoWait
    /\ isTTY = FALSE /\ termMode = "cooked" /\ oldState = "none"

ExIdle ==
    /\ exStdin = <<>> /\ exSessIn = <<>>
    /\ exFrames = <<>> /\ exCode = 0 /\ exIn = <<>> /\ exOut = <<>> /\ exErr = <<>>
    /\ exCalls = <<>>

\* the commands that take their input from the context alone
NoArg == [none |-> TRUE]

InitPF ==
    /\ op = "port-forward"
    /\ \E p \in {<<"remote", "linux">>, <<"local", "linux">>, <<"local", "darwin">>} :
         kind = p[1] /\ goos = p[2]
    /\ args = NoArg /\ printed = <<>> /\ cfgFile = EmptyConfig
    /\ ssh = <<>> /\ dials = 0
    /\ pfArgs \in SeqsUpTo(ArgPool, MaxSpecs)
    /\ pfPc = "start" /\ pfI = 0 /\ pfCur = NoCur /\ pfErr = "none"
    /\ lst = <<>> /\ sshCli = -1 /\ sigPending = FALSE /\ conns = [c \in 1..MaxConns |-> NoConn]
    /\ errLog = {}
    /\ SeqIdle /\ RCIdle /\ ExIdle

\* a return of RunE: the deferred cancel() and cli.Close() run, nothing else
PFReturnWith(err) ==
    /\ pfPc' = "returned"
    /\ pfErr' = err
    /\ ssh' = DockerClientClose(ssh, sshCli)

\* the ports some open listener of this process holds
BoundPorts == {lst[k].port : k \in {j \in 1..Len(lst) : lst[j].open}}

\* a Listen that takes a port an open listener already holds
CanListenAlways(port) == port \in 0..65535

\* net.Listen("tcp", "localhost:<port>") succeeds
CanListen(port) == port \in 0..65535 /\ port \notin BoundPorts

\* CurrentContext, the GOOS check, GetDockerCli, signal.Notify
PFStart ==
    /\ op = "port-forward" /\ pfPc = "start"
    /\ IF goos # "linux" /\ kind = "local"
       THEN /\ pfPc' = "returned" /\ pfErr' = "unsupported"
            /\ UNCHANGED <<ssh, dials, sshCli, pfI>>
       ELSE \/ \* config.CurrentContext fails
               /\ pfPc' = "returned" /\ pfErr' = "context"
               /\ UNCHANGED <<ssh, dials, sshCli, pfI>>
            \/ \E r \in GetDockerCliResults(ssh, dials) :
                 /\ ssh' = r.ssh /\ dials' = r.dials
                 /\ IF r.err # "nil"
                    THEN /\ pfPc' = "returned" /\ pfErr' = r.err
                         /\ UNCHANGED <<sshCli, pfI>>
                    ELSE /\ sshCli' = r.cli /\ pfPc' = "loop"
                         /\ UNCHANGED <<pfErr, pfI>>
    /\ UNCHANGED <<ctxVars, cfgFile, printed, pfArgs, pfCur, lst, sigPending, conns, errLog,
                   seqVars, rcVars, exVars>>

\* what the checks before net.Listen say about a spec: the error, or "nil"
SpecSyntaxErr(arg) ==
    LET parts == Split(arg, ":") IN
    IF Len(parts) # 3 THEN "invalid port forwarding spec"
    ELSE IF ~AtoiOk(parts[1]) THEN "invalid local port"
    ELSE IF ~AtoiOk(parts[3]) THEN "invalid remote port"
    ELSE "nil"

\* one loop iteration up to listeners = append(listeners, listener)
PFParseBind ==
    /\ op = "port-forward" /\ pfPc = "loop" /\ pfArgs # <<>>
    /\ LET arg == Head(pfArgs)
           parts == Split(arg, ":")
       IN IF SpecSyntaxErr(arg) # "nil"
          THEN /\ PFReturnWith(SpecSyntaxErr(arg))
               /\ UNCHANGED <<lst, pfCur>>
          ELSE IF ~CanListen(AtoiVal(parts[1]))
          THEN /\ PFReturnWith("local port in use")
               /\ UNCHANGED <<lst, pfCur>>
          ELSE /\ lst' = Append(lst, [port |-> AtoiVal(parts[1]), open |-> TRUE,
                                       loop |-> "none", lp |-> <<>>, remoteAddr |-> <<>>,
                                       err |-> <<>>])
               /\ pfCur' = [lp |-> parts[1], service |-> parts[2], rport |-> AtoiVal(parts[3])]
               /\ pfPc' = "resolve"
               /\ UNCHANGED <<ssh, pfErr>>
    /\ UNCHANGED <<ctxVars, cfgFile, printed, dials, pfArgs, pfI, sshCli, sigPending, conns, errLog,
                   seqVars, rcVars, exVars>>

\* the rest of the iteration: GetContainerName, GetServiceIp, go func(listener, lp, remoteAddr)
PFResolveSpawn ==
    /\ op = "port-forward" /\ pfPc = "resolve"
    /\ LET cn == GetContainerName(PFDaemon, PFContext, Str(pfCur.service), FALSE)
           res == IF cn.err # Nil THEN [err |-> cn.err, ip |-> ""]
                  ELSE GetServiceIp(PFDaemon, PFContext, cn.val)
           me == Len(lst)
       IN IF res.err # "nil"
          THEN /\ PFReturnWith(res.err)
               /\ UNCHANGED <<lst, pfArgs, pfCur>>
          ELSE /\ lst' = [lst EXCEPT ![me].loop = "accepting",
                                     ![me].lp = pfCur.lp,
                                     ![me].remoteAddr = <<res.ip, pfCur.rport>>]
               /\ pfArgs' = Tail(pfArgs)
               /\ pfCur' = NoCur   \* the iteration's locals are dead
               /\ pfPc' = "loop"
               /\ UNCHANGED <<ssh, pfErr>>
    /\ UNCHANGED <<ctxVars, cfgFile, printed, dials, pfI, sshCli, sigPending, conns, errLog,
                   seqVars, rcVars, exVars>>

\* the operating system delivers SIGINT, SIGHUP or SIGTERM after signal.Notify
Signal ==
    /\ op = "port-forward" /\ pfPc = "loop" /\ ~sigPending
    /\ sigPending' = TRUE
    /\ UNCHANGED <<ctxVars, cfgFile, printed, ssh, dials, pfArgs, pfPc, pfI, pfCur, pfErr, lst, sshCli, conns, errLog,
                   seqVars, rcVars, exVars>>

\* a wait that does not block: RunE goes on to the shutdown without a signal
PFWaitNoBlock ==
    /\ op = "port-forward" /\ pfPc = "loop" /\ pfArgs = <<>>
    /\ sigPending' = FALSE
    /\ pfPc' = "shutdown" /\ pfI' = 1
    /\ UNCHANGED <<ctxVars, cfgFile, printed, ssh, dials, pfArgs, pfCur, pfErr, lst, sshCli, conns, errLog,
                   seqVars, rcVars, exVars>>

\* <-done
PFWait ==
    /\ op = "port-forward" /\ pfPc = "loop" /\ pfArgs = <<>>
    /\ sigPending
    /\ sigPending' = FALSE
    /\ pfPc' = "shutdown" /\ pfI' = 1
    /\ UNCHANGED <<ctxVars, cfgFile, printed, ssh, dials, pfArgs, pfCur, pfErr, lst, sshCli, conns, errLog,
                   seqVars, rcVars, exVars>>

\* for _, listener := range listeners { listener.Close() }
PFShutdownClose ==
    /\ op = "port-forward" /\ pfPc = "shutdown" /\ pfI <= Len(lst)
    /\ lst' = [lst EXCEPT ![pfI].open = FALSE]
    /\ pfI' = pfI + 1
    /\ UNCHANGED <<ctxVars, cfgFile, printed, ssh, dials, pfArgs, pfPc, pfCur, pfErr, sshCli, sigPending, conns, errLog,
                   seqVars, rcVars, exVars>>

\* return nil
PFReturn ==
    /\ op = "port-forward" /\ pfPc = "shutdown" /\ pfI > Len(lst)
    /\ PFReturnWith("nil")
    /\ UNCHANGED <<ctxVars, cfgFile, printed, dials, pfArgs, pfI, pfCur, lst, sshCli, sigPending, conns, errLog,
                   seqVars, rcVars, exVars>>

(***************************************************************************)
(* port-forward: the accept loop of listener i (a goroutine)               *)
(***************************************************************************)
\* the error text of Accept on a listener that was closed, in its parts
ErrClosed == <<"accept tcp", "use of closed network connection">>
\* any other Accept failure
ErrOther == <<"accept tcp", "too many open files">>

\* a loop that takes no Accept error for the closure of its listener
IsClosureErrNever(err) == FALSE

\* strings.Contains(err.Error(), "use of closed network connection")
IsClosureErr(err) == \E k \in 1..Len(err) : err[k] = "use of closed network connection"

\* what the loop writes to stderr for an Accept error
AcceptErrReport(i, err) ==
    IF IsClosureErr(err) THEN {} ELSE {[what |-> "accept", at |-> lst[i].lp, err |-> err]}

\* a loop that reads the remoteAddr of the latest iteration of the setup loop
\* instead of its own argument
ForwardAddrLatest(i) == lst[Len(lst)].remoteAddr

\* the remoteAddr argument the loop of listener i hands to forward
ForwardAddr(i) == lst[i].remoteAddr

FreeSlots == {c \in DOMAIN conns : conns[c].st = "free"}

\* a loop that runs forward itself and is back at Accept only when forward returned
LoopBusySerial(i) == \E c \in DOMAIN conns : conns[c].st # "free" /\ conns[c].fwd = i

\* the loop of listener i is not at Accept: never, forward runs in a goroutine of
\* its own (go forward(...))
LoopBusy(i) == FALSE

\* localConn, err := listener.Accept() returns a connection; go forward(cli.SshCli, localConn, remoteAddr)
AcceptConn(i) ==
    /\ op = "port-forward" /\ pfPc # "crashed"
    /\ i \in 1..Len(lst) /\ lst[i].loop = "accepting" /\ lst[i].open
    /\ ~LoopBusy(i)
    /\ FreeSlots # {}
    /\ LET c == CHOOSE x \in FreeSlots : \A y \in FreeSlots : x <= y
       IN conns' = [conns EXCEPT ![c] = [st |-> "accepted", fwd |-> i, client |-> sshCli,
                                         addr |-> ForwardAddr(i), dialed |-> <<>>, peer |-> 0]]
    /\ UNCHANGED <<ctxVars, cfgFile, printed, ssh, dials, pfArgs, pfPc, pfI, pfCur, pfErr, lst, sshCli, sigPending, errLog,
                   seqVars, rcVars, exVars>>

\* Accept returns an error: the loop ends and its deferred listener.Close() runs
AcceptFail(i) ==
    /\ op = "port-forward" /\ pfPc # "crashed"
    /\ i \in 1..Len(lst) /\ lst[i].loop = "accepting"
    /\ ~LoopBusy(i)
    /\ \E err \in (IF lst[i].open THEN {ErrOther} ELSE {ErrClosed}) :
         /\ errLog' = errLog \cup AcceptErrReport(i, err)
         /\ lst' = [lst EXCEPT ![i].loop = "exited", ![i].open = FALSE, ![i].err = err]
    /\ UNCHANGED <<ctxVars, cfgFile, printed, ssh, dials, pfArgs, pfPc, pfI, pfCur, pfErr, sshCli, sigPending, conns,
                   seqVars, rcVars, exVars>>

(***************************************************************************)
(* port-forward: forward(client, localConn, remoteAddr) for connection c   *)
(***************************************************************************)
\* the connection whose remote end forward(c) copies to and from: its own remoteConn
CopyPeer(c) == c

\* remoteConn, err := client.Dial("tcp", remoteAddr); on success the two io.Copy
\* calls run between localConn and remoteConn until FwdDone
FwdDial(c) ==
    /\ op = "port-forward" /\ pfPc # "crashed"
    /\ c \in DOMAIN conns /\ conns[c].st = "accepted"
    /\ IF conns[c].client = 0
       THEN \* a nil *ssh.Client: the dereference panics and the process dies
            /\ pfPc' = "crashed"
            /\ UNCHANGED <<conns, errLog>>
       ELSE \/ /\ IsOpen(ssh, conns[c].client)
               /\ conns' = [conns EXCEPT ![c].st = "active", ![c].dialed = conns[c].addr,
                                         ![c].peer = CopyPeer(c)]
               /\ UNCHANGED <<pfPc, errLog>>
            \/ \* the dial fails (connection closed, or the remote end refuses):
               \* it is reported and the deferred localConn.Close() runs
               /\ conns' = [conns EXCEPT ![c] = NoConn]
               /\ errLog' = errLog \cup {[what |-> "dial", at |-> <<>>, err |-> <<"dial failed">>]}
               /\ UNCHANGED pfPc
    /\ UNCHANGED <<ctxVars, cfgFile, printed, ssh, dials, pfArgs, pfI, pfCur, pfErr, lst, sshCli, sigPending,
                   seqVars, rcVars, exVars>>

\* io.Copy(localConn, remoteConn) returns: the deferred Close of both ends runs
FwdDone(c) ==
    /\ op = "port-forward" /\ pfPc # "crashed"
    /\ c \in DOMAIN conns /\ conns[c].st = "active"
    /\ conns' = [conns EXCEPT ![c] = NoConn]
    /\ UNCHANGED <<ctxVars, cfgFile, printed, ssh, dials, pfArgs, pfPc, pfI, pfCur, pfErr, lst, sshCli, sigPending, errLog,
                   seqVars, rcVars, exVars>>

NextPF ==
    \/ PFStart
    \/ PFParseBind
    \/ PFResolveSpawn
    \/ Signal
    \/ PFWait
    \/ PFShutdownClose
    \/ PFReturn
    \/ \E i \in 1..MaxSpecs + 1 : AcceptConn(i)
    \/ \E i \in 1..MaxSpecs + 1 : AcceptFail(i)
    \/ \E c \in 1..MaxConns : FwdDial(c)
    \/ \E c \in 1..MaxConns : FwdDone(c)

SpecPF == InitPF /\ [][NextPF]_vars

(***************************************************************************)
(* Claims about port-forward                                               *)
(***************************************************************************)
SyntaxErrs == {"invalid port forwarding spec", "invalid local port", "invalid remote port"}

OpenListeners == {i \in 1..Len(lst) : lst[i].open}

\* C1: whenever the args hold a malformed spec (segment count other than 3, or a
\* port that is not an integer), RunE returns an error and none of the listeners
\* it opened is still open when it returns.
C1_MalformedSpecLeavesNoListener ==
    (pfPc = "returned" /\ \E k \in 1..Len(pfArgs) : SpecSyntaxErr(pfArgs[k]) \in SyntaxErrs)
        => (pfErr \notin {"none", "nil"} /\ OpenListeners = {})

ActiveConns == {c \in DOMAIN conns : conns[c].st = "active"}

\* C5: every forwarded connection is dialed to the remote address resolved for the
\* forward whose listener accepted it, and its copies run between its own two ends.
C5_NoCrossTalk ==
    \A c \in ActiveConns :
        /\ conns[c].dialed = lst[conns[c].fwd].remoteAddr
        /\ conns[c].peer = c

\* two connections accepted on different local ports are forwarded at the same
\* time, to different remote addresses
C5_Witness ==
    \E c, d \in ActiveConns :
        /\ lst[conns[c].fwd].port # lst[conns[d].fwd].port
        /\ conns[c].dialed # conns[d].dialed
        /\ lst[conns[c].fwd].open /\ lst[conns[d].fwd].open

\* C9: RunE leaves its wait only when a signal is in the channel, and when it then
\* returns it returns nil with every listener it opened closed.
C9_BlocksUntilSignalThenCloses ==
    /\ [][(pfPc = "loop" /\ pfArgs = <<>> /\ pfPc' \in {"shutdown", "returned"}) => sigPending]_vars
    /\ []((pfPc = "returned" /\ pfErr = "nil") => (pfArgs = <<>> /\ OpenListeners = {}))
    /\ []((pfPc = "returned" /\ pfArgs = <<>> /\ lst # <<>>) => pfErr = "nil")

\* RunE returned nil after closing two listeners
C9_Witness ==
    /\ pfPc = "returned" /\ pfErr = "nil"
    /\ Len(lst) = 2 /\ \A i \in 1..2 : lst[i].loop # "none"

AcceptReports == {r \in errLog : r.what = "accept"}

\* C10: an accept loop that ends because its listener was closed writes nothing to
\* stderr; one that ends on any other Accept error reports that error.
C10_ClosureIsNotReported ==
    /\ \A r \in AcceptReports : r.err # ErrClosed
    /\ \A i \in 1..Len(lst) :
         (lst[i].loop = "exited" /\ lst[i].err # ErrClosed)
            => [what |-> "accept", at |-> lst[i].lp, err |-> lst[i].err] \in errLog

\* an accept loop has ended on the closure of its listener by the shutdown loop,
\* and stderr holds no accept report
C10_Witness ==
    /\ pfPc \in {"shutdown", "returned"}
    /\ \E i \in 1..Len(lst) : lst[i].loop = "exited" /\ lst[i].err = ErrClosed
    /\ AcceptReports = {}

\* the services port-forward can resolve to an address: those with a container
\* on the project's default network
ResolvableServices == {"a", "b"}

\* the listeners that are bound and have no accept loop yet
Unserved == {k \in 1..Len(lst) : lst[k].loop = "none"}

\* C22: a listener is only ever bound for a spec whose service resolves to a
\* container and to its address: a bound listener without an accept loop belongs
\* to the spec the loop is at, and the service of that spec can be resolved
C22_ResolvedBeforeBound ==
    \A k \in Unserved :
        /\ pfArgs # <<>>
        /\ Str(Split(Head(pfArgs), ":")[2]) \in ResolvableServices

\* the local port of the spec the setup loop is at
HeadPort == AtoiVal(Split(Head(pfArgs), ":")[1])

C24_LoopsIndependent ==
    /\ [][\A i \in 1..Len(lst) :
            (lst[i].loop = "accepting" /\ lst'[i].loop = "exited")
                => \A j \in 1..Len(lst) : j # i => lst'[j] = lst[j]]_vars
    /\ [](\A i \in 1..Len(lst) :
            (lst[i].loop = "accepting" /\ lst[i].open /\ FreeSlots # {} /\ pfPc # "crashed")
                => ENABLED AcceptConn(i))

\* one accept loop ended on an error while the other listener is open and
\* forwards a connection, with room for a further one
C24_Witness ==
    /\ Len(lst) = 2 /\ lst[1].loop = "exited" /\ lst[1].err = ErrOther
    /\ lst[2].loop = "accepting" /\ lst[2].open
    /\ \E c \in ActiveConns : conns[c].fwd = 2
    /\ FreeSlots # {}

\* C25: the shutdown closes listeners only: a connection that is being forwarded
\* when RunE returns from the shutdown still has the SSH connection it was dialed
\* through, and goes on until one of its own two ends closes
C25_ShutdownSparesConnections ==
    (pfPc = "returned" /\ pfErr = "nil")
        => \A c \in ActiveConns : IsOpen(ssh, conns[c].client)

\* C27: port-forward never dials a forward through an absent SSH connection: no
\* accepted connection makes forward dereference a nil client
C27_NoNilClientDial == pfPc # "crashed"

\* C29: when RunE has released its Docker/SSH handle, on the shutdown or on an
\* error return, no listener of the invocation is open with its accept loop
\* running
C29_NoAcceptAfterRelease ==
    (pfPc = "returned" /\ sshCli > 0) => \A i \in 1..Len(lst) : ~(lst[i].open /\ lst[i].loop = "accepting")

(***************************************************************************)
(* forward in steps: the two io.Copy calls and the ends of a connection    *)
(*                                                                         *)
(* conns[c].st after the dial:                                             *)
(*   "active"      both ends open, both copies running                     *)
(*   "local-gone"  the local client has closed; the goroutine's Read on    *)
(*                 localConn has EOF waiting                               *)
(*   "l2r-ended"   io.Copy(remoteConn, localConn) has returned and its     *)
(*                 goroutine is gone; remoteConn is as it was              *)
(*   "r2l-ending"  io.Copy(localConn, remoteConn) has its end waiting: the *)
(*                 remote side closed, or sent to a local client that is   *)
(*                 gone                                                    *)
(***************************************************************************)
\* the listener the setup loop leaves for a spec port:service:rport that resolved
Serving(port, lp, ip, rport) ==
    [port |-> port, open |-> TRUE, loop |-> "accepting", lp |-> <<lp>>,
     remoteAddr |-> <<ip, rport>>, err |-> <<>>]

\* RunE at <-done in a remote context, after the setup of 1:a:8, of 2:b:9, or of both
InitFwd ==
    /\ op = "port-forward" /\ kind = "remote" /\ goos = "linux"
    /\ args = NoArg /\ printed = <<>> /\ cfgFile = EmptyConfig
    /\ ssh = <<NewConn>> /\ dials = 1 /\ sshCli = 1
    /\ pfArgs = <<>> /\ pfPc = "loop" /\ pfI = 0 /\ pfCur = NoCur /\ pfErr = "none"
    /\ lst \in { <<Serving(1, "1", "ipA", 8)>>,
                 <<Serving(2, "2", "ipB", 9)>>,
                 <<Serving(1, "1", "ipA", 8), Serving(2, "2", "ipB", 9)>> }
    /\ sigPending = FALSE /\ conns = [c \in 1..MaxConns |-> NoConn] /\ errLog = {}
    /\ SeqIdle /\ RCIdle /\ ExIdle

\* the states in which the copy from remoteConn to localConn is blocked in Read
R2LReading == {"active", "local-gone", "l2r-ended"}

\* the local client closes its connection
LocalCloses(c) ==
    /\ op = "port-forward" /\ pfPc # "crashed"
    /\ c \in DOMAIN conns /\ conns[c].st = "active"
    /\ conns' = [conns EXCEPT ![c].st = "local-gone"]
    /\ UNCHANGED <<ctxVars, cfgFile, printed, ssh, dials, pfArgs, pfPc, pfI, pfCur, pfErr, lst, sshCli, sigPending, errLog,
                   seqVars, rcVars, exVars>>

\* the remote service closes the connection, or sends to a local client that is gone
RemoteEnds(c) ==
    /\ op = "port-forward" /\ pfPc # "crashed"
    /\ c \in DOMAIN conns /\ conns[c].st \in R2LReading
    /\ conns' = [conns EXCEPT ![c].st = "r2l-ending"]
    /\ UNCHANGED <<ctxVars, cfgFile, printed, ssh, dials, pfArgs, pfPc, pfI, pfCur, pfErr, lst, sshCli, sigPending, errLog,
                   seqVars, rcVars, exVars>>

\* go func() { io.Copy(remoteConn, localConn) }() when the copy returns at EOF:
\* the goroutine ends and closes nothing
L2REnd(c) == "l2r-ended"

\* io.Copy(remoteConn, localConn) reads the EOF of the local client and returns
FwdLocalCopyEnds(c) ==
    /\ op = "port-forward" /\ pfPc # "crashed"
    /\ c \in DOMAIN conns /\ conns[c].st = "local-gone"
    /\ conns' = [conns EXCEPT ![c].st = L2REnd(c)]
    /\ UNCHANGED <<ctxVars, cfgFile, printed, ssh, dials, pfArgs, pfPc, pfI, pfCur, pfErr, lst, sshCli, sigPending, errLog,
                   seqVars, rcVars, exVars>>

\* io.Copy(localConn, remoteConn) returns and forward with it: the deferred
\* remoteConn.Close() and localConn.Close() run, which also ends a copy from
\* localConn that is still reading
FwdReturn(c) ==
    /\ op = "port-forward" /\ pfPc # "crashed"
    /\ c \in DOMAIN conns /\ conns[c].st = "r2l-ending"
    /\ conns' = [conns EXCEPT ![c] = NoConn]
    /\ UNCHANGED <<ctxVars, cfgFile, printed, ssh, dials, pfArgs, pfPc, pfI, pfCur, pfErr, lst, sshCli, sigPending, errLog,
                   seqVars, rcVars, exVars>>

NextFwd ==
    \/ \E i \in 1..MaxSpecs : AcceptConn(i)
    \/ \E c \in 1..MaxConns : FwdDial(c)
    \/ \E c \in 1..MaxConns : LocalCloses(c)
    \/ \E c \in 1..MaxConns : RemoteEnds(c)
    \/ \E c \in 1..MaxConns : FwdLocalCopyEnds(c)
    \/ \E c \in 1..MaxConns : FwdReturn(c)

\* the goroutines of forward run whenever they can; the clients and the remote
\* services act when they choose to
SpecFwd ==
    /\ InitFwd /\ [][NextFwd]_vars
    /\ \A c \in 1..MaxConns :
         WF_vars(FwdDial(c)) /\ WF_vars(FwdLocalCopyEnds(c)) /\ WF_vars(FwdReturn(c))

\* C28: once either side of a forwarded connection has closed, both copies end
\* and both connections are closed: the pairing does not stay open forever after
\* its local client has gone away.
C28_ClosePropagates ==
    \A c \in 1..MaxConns :
        (conns[c].st \in {"local-gone", "r2l-ending"}) ~> (conns[c].st = "free")


(***************************************************************************)
(* Context.RunCommand                                                      *)
(***************************************************************************)
NL == "\n"
Space == {" ", "\n", "\r", "\t"}

\* what the command may print
OutPool ==
    { <<>>,
      <<"a">>,
      <<"a", NL>>,
      <<"a", NL, "b", NL>>,
      <<"a", NL, " ", "b", NL>>,
      <<"a", NL, NL>> }

ExitPool == {0, 1, 130}

\* the size of the read buffer of the remote loop
ReadBuf == 1024

RECURSIVE TrimLeft(_)
TrimLeft(s) == IF s # <<>> /\ Head(s) \in Space THEN TrimLeft(Tail(s)) ELSE s

RECURSIVE TrimRight(_)
TrimRight(s) ==
    IF s # <<>> /\ s[Len(s)] \in Space THEN TrimRight(SubSeq(s, 1, Len(s) - 1)) ELSE s

\* strings.TrimSpace
TrimSpace(s) == TrimRight(TrimLeft(s))

\* the index of the first newline of s, 0 when it has none
NewlineAt(s) ==
    IF \E k \in 1..Len(s) : s[k] = NL
    THEN CHOOSE k \in 1..Len(s) : s[k] = NL /\ \A j \in 1..(k - 1) : s[j] # NL
    ELSE 0

DropCR(s) == IF s # <<>> /\ s[Len(s)] = "\r" THEN SubSeq(s, 1, Len(s) - 1) ELSE s

\* bufio.Scanner with ScanLines on a non-empty rest: the next line and what follows it
ScanLine(s) == DropCR(IF NewlineAt(s) = 0 THEN s ELSE SubSeq(s, 1, NewlineAt(s) - 1))
ScanRest(s) == IF NewlineAt(s) = 0 THEN <<>> ELSE SubSeq(s, NewlineAt(s) + 1, Len(s))

\* a RunCommand that takes every context for a remote one
IsLocalNever(k) == FALSE

\* c.DockerHostType == ContextLocal
IsLocal(k) == k = "local"

InitRC ==
    /\ op = "RunCommand"
    /\ kind \in {"local", "remote"} /\ goos = "linux"
    /\ args = NoArg /\ printed = <<>> /\ cfgFile = EmptyConfig
    /\ ssh = <<>> /\ dials = 0
    /\ PFIdle
    /\ pc = "start" /\ conn = 0 /\ ret = NoRet
    /\ rcProduced \in OutPool /\ rcExit \in ExitPool
    /\ rcRest = <<>> /\ rcOutput = <<>> /\ rcWait = NoWait
    /\ isTTY \in BOOLEAN /\ termMode = "cooked" /\ oldState = "none"
    /\ ExIdle

\* a restore that runs on the successful return only
TermAfterReturnOnSuccess(err) == IF oldState # "none" /\ err = "nil" THEN oldState ELSE termMode

\* the deferred term.Restore(fd, oldState), when the switch to raw mode registered it
TermAfterReturn(err) == IF oldState # "none" THEN oldState ELSE termMode

\* a return of RunCommand with its deferred calls: term.Restore, session.Close, sshClient.Close
RCReturn(out, err) ==
    /\ pc' = "returned"
    /\ ret' = [out |-> out, err |-> err]
    /\ termMode' = TermAfterReturn(err)
    /\ ssh' = IF conn > 0 THEN CloseConn(ssh, conn) ELSE ssh

\* local: StdoutPipe and cmd.Start
RCLocalStart ==
    /\ op = "RunCommand" /\ pc = "start" /\ IsLocal(kind)
    /\ \/ /\ \E e \in {"stdout pipe", "start"} : RCReturn(<<>>, e)
          /\ UNCHANGED rcRest
       \/ /\ pc' = "scan" /\ rcRest' = rcProduced
          /\ UNCHANGED <<ret, termMode, ssh>>
    /\ UNCHANGED <<ctxVars, cfgFile, printed, dials, pfVars, exVars, conn, rcProduced, rcExit, rcOutput, rcWait, isTTY, oldState>>

\* local: one scanner.Scan() that returns a line
RCLocalScan ==
    /\ op = "RunCommand" /\ pc = "scan" /\ rcRest # <<>>
    /\ rcOutput' = TrimSpace(ScanLine(rcRest))
    /\ rcRest' = ScanRest(rcRest)
    /\ UNCHANGED <<ctxVars, cfgFile, printed, ssh, dials, pfVars, exVars, seqVars, rcProduced, rcExit, rcWait, isTTY, termMode, oldState>>

\* local: the scanner is at the end of the output, or it failed (scanner.Err is
\* logged and the rest is left unread); cmd.Wait
RCLocalWait ==
    /\ op = "RunCommand" /\ pc = "scan"
    /\ IF rcExit # 0 THEN RCReturn(<<>>, "wait") ELSE RCReturn(rcOutput, "nil")
    /\ UNCHANGED <<ctxVars, cfgFile, printed, dials, pfVars, exVars, conn, rcVarsButTerm>>

\* remote: c.DialSSH() and defer sshClient.Close()
RCDial ==
    /\ op = "RunCommand" /\ pc = "start" /\ ~IsLocal(kind)
    /\ dials' = dials + 1
    /\ \/ /\ RCReturn(<<>>, "dial")
          /\ UNCHANGED conn
       \/ /\ ssh' = Append(ssh, NewConn) /\ conn' = Len(ssh) + 1
          /\ pc' = "session"
          /\ UNCHANGED <<ret, termMode>>
    /\ UNCHANGED <<ctxVars, cfgFile, printed, pfVars, exVars, rcVarsButTerm>>

\* remote: sshClient.NewSession(), defer session.Close(), session.RequestPty
RCSession ==
    /\ op = "RunCommand" /\ pc = "session"
    /\ \/ \E e \in {"session", "pty"} : RCReturn(<<>>, e)
       \/ pc' = "raw" /\ UNCHANGED <<ret, termMode, ssh>>
    /\ UNCHANGED <<ctxVars, cfgFile, printed, dials, pfVars, exVars, conn, rcVarsButTerm>>

\* remote: if term.IsTerminal(stdin) { oldState, err := term.MakeRaw(stdin); defer term.Restore }
RCMakeRaw ==
    /\ op = "RunCommand" /\ pc = "raw"
    /\ IF isTTY
       THEN \/ RCReturn(<<>>, "raw") /\ UNCHANGED oldState
            \/ /\ termMode' = "raw" /\ oldState' = termMode
               /\ pc' = "pipes"
               /\ UNCHANGED <<ret, ssh>>
       ELSE pc' = "pipes" /\ UNCHANGED <<ret, ssh, termMode, oldState>>
    /\ UNCHANGED <<ctxVars, cfgFile, printed, dials, pfVars, exVars, conn, rcProduced, rcExit, rcRest, rcOutput, rcWait, isTTY>>

\* remote: session.StdoutPipe, session.StderrPipe, session.Start
RCPipesStart ==
    /\ op = "RunCommand" /\ pc = "pipes"
    /\ \/ /\ \E e \in {"stdout pipe", "stderr pipe", "start"} : RCReturn(<<>>, e)
          /\ UNCHANGED rcRest
       \/ /\ pc' = "read" /\ rcRest' = rcProduced
          /\ UNCHANGED <<ret, termMode, ssh>>
    /\ UNCHANGED <<ctxVars, cfgFile, printed, dials, pfVars, exVars, conn, rcProduced, rcExit, rcOutput, rcWait, isTTY, oldState>>

Min(a, b) == IF a <= b THEN a ELSE b

\* remote: one combined.Read(buf): a chunk of n > 0 bytes, the end of the output,
\* or a read error (both leave the loop)
RCRead ==
    /\ op = "RunCommand" /\ pc = "read"
    /\ \/ /\ rcRest # <<>>
          /\ \E n \in 1..Min(Len(rcRest), ReadBuf) :
               /\ rcOutput' = SubSeq(rcRest, 1, n)
               /\ rcRest' = SubSeq(rcRest, n + 1, Len(rcRest))
          /\ UNCHANGED pc
       \/ /\ rcRest = <<>>
          /\ pc' = "wait"
          /\ UNCHANGED <<rcOutput, rcRest>>
       \/ /\ rcRest # <<>>
          /\ pc' = "wait"
          /\ UNCHANGED <<rcOutput, rcRest>>
    /\ UNCHANGED <<ctxVars, cfgFile, printed, ssh, dials, pfVars, exVars, conn, ret, rcProduced, rcExit, rcWait, isTTY, termMode, oldState>>

\* what session.Wait can return for a command that exits with `status`
WaitResults(status) ==
    { IF status = 0 THEN [type |-> "nil", status |-> 0]
                    ELSE [type |-> "ExitError", status |-> status],
      [type |-> "other", status |-> 0] }

\* a Wait that has no special case for an exit status
IsSigintExitNever(w) == FALSE

\* a Wait that takes every exit status for an interrupt
IsSigintExitAnyStatus(w) == w.type = "ExitError"

\* exitErr, ok := err.(*ssh.ExitError); ok && exitErr.ExitStatus() == 130
IsSigintExit(w) == w.type = "ExitError" /\ w.status = 130

\* remote: session.Wait() and the return
RCWait ==
    /\ op = "RunCommand" /\ pc = "wait"
    /\ \E w \in WaitResults(rcExit) :
         /\ rcWait' = w
         /\ IF w.type # "nil"
            THEN IF IsSigintExit(w) THEN RCReturn(rcOutput, "nil") ELSE RCReturn(<<>>, "wait")
            ELSE RCReturn(rcOutput, "nil")
    /\ UNCHANGED <<ctxVars, cfgFile, printed, dials, pfVars, exVars, conn, rcProduced, rcExit, rcRest, rcOutput, isTTY, oldState>>

NextRC ==
    \/ RCLocalStart
    \/ RCLocalScan
    \/ RCLocalWait
    \/ RCDial
    \/ RCSession
    \/ RCMakeRaw
    \/ RCPipesStart
    \/ RCRead
    \/ RCWait

SpecRC == InitRC /\ [][NextRC]_vars

C3_Exit130IsSuccess ==
    (op = "RunCommand" /\ pc = "returned" /\ rcWait = [type |-> "ExitError", status |-> 130])
        => (ret.err = "nil" /\ ret.out = rcOutput)

\* the command printed something and ended with status 130
C3_Witness ==
    /\ op = "RunCommand" /\ pc = "returned" /\ kind = "remote"
    /\ rcWait = [type |-> "ExitError", status |-> 130]
    /\ ret.out # <<>>

\* C4: RunCommand on a Local context never calls DialSSH and holds no SSH connection.
C4_LocalNeverDials ==
    (op = "RunCommand" /\ kind = "local") => (dials = 0 /\ ssh = <<>> /\ conn = 0)

\* a local command has run to its end and exited non-zero
C4_Witness ==
    /\ op = "RunCommand" /\ kind = "local" /\ pc = "returned"
    /\ ret.err = "wait" /\ rcProduced # <<>> /\ rcRest = <<>>

\* the last line of a text, without surrounding white space
LastLine(s) ==
    LET parts == Split(s, NL)
        lines == IF parts[Len(parts)] = <<>> THEN SubSeq(parts, 1, Len(parts) - 1) ELSE parts
    IN IF lines = <<>> THEN <<>> ELSE TrimSpace(lines[Len(lines)])

\* C7: a RunCommand that has read all the command printed and succeeds returns the
\* last line of it (up to surrounding white space), on a Local and on a Remote
\* context alike.
C7_ReturnsLastLine ==
    (op = "RunCommand" /\ pc = "returned" /\ ret.err = "nil" /\ rcRest = <<>>)
        => TrimSpace(ret.out) = LastLine(rcProduced)

(***************************************************************************)
(* Context.ReadSmallFile, Context.ProjectDirExists, Context.UploadFile     *)
(***************************************************************************)
FileOps == {"ReadSmallFile", "ProjectDirExists", "UploadFile"}

\* the content of the file ReadSmallFile is asked for
FileData == <<"s">>

\* the deferred client.Close() of a call that holds its own connection
CloseOwn(s, k) == IF k > 0 THEN CloseConn(s, k) ELSE s

\* a return of a file helper, with its deferred client.Close()
FileReturn(out, err) ==
    /\ pc' = "returned"
    /\ ret' = [out |-> out, err |-> err]
    /\ ssh' = CloseOwn(ssh, conn)

\* the commands that run ReadSmallFile
RSFCallers == {"ReadSmallFile", "GetSecret", "GetDatabaseUris"}

\* a return of ReadSmallFile; GetSecret returns what it returned, and in
\* GetDatabaseUris GetSecret returns it to GetDatabaseUris
RSFReturn(data) ==
    /\ ssh' = CloseOwn(ssh, conn)
    /\ IF op \in {"ReadSmallFile", "GetSecret"}
       THEN pc' = "returned" /\ ret' = [out |-> data, err |-> "nil"]
       ELSE pc' = "gdu:uris" /\ ret' = [out |-> data, err |-> "none"]

\* c.DialSSH() and defer client.Close(): the dial fails (FALSE) or gives a new connection
DialOwn(ok) ==
    /\ dials' = dials + 1
    /\ ok => (ssh' = Append(ssh, NewConn) /\ conn' = Len(ssh) + 1)

\* ReadSmallFile up to the dial: the ReadSmallFileFunc hook, os.ReadFile, or c.DialSSH()
RSFStart ==
    /\ op \in RSFCallers /\ pc = "rsf:start"
    /\ \/ \* the hook is set, or the context is local: no connection
          /\ \E data \in {FileData, <<>>} : RSFReturn(data)
          /\ UNCHANGED <<dials, conn>>
       \/ /\ ~IsLocal(kind)
          /\ \/ DialOwn(FALSE) /\ RSFReturn(<<>>) /\ UNCHANGED conn
             \/ DialOwn(TRUE) /\ pc' = "rsf:sftp" /\ UNCHANGED ret
    /\ UNCHANGED <<ctxVars, cfgFile, printed, pfVars, rcVars, exVars>>

\* sftp.NewClient(client)
RSFSftp ==
    /\ op \in RSFCallers /\ pc = "rsf:sftp"
    /\ \/ RSFReturn(<<>>)
       \/ pc' = "rsf:open" /\ UNCHANGED <<ret, ssh>>
    /\ UNCHANGED <<ctxVars, cfgFile, printed, dials, conn, pfVars, rcVars, exVars>>

\* sftpClient.Open(filename)
RSFOpen ==
    /\ op \in RSFCallers /\ pc = "rsf:open"
    /\ \/ RSFReturn(<<>>)
       \/ pc' = "rsf:read" /\ UNCHANGED <<ret, ssh>>
    /\ UNCHANGED <<ctxVars, cfgFile, printed, dials, conn, pfVars, rcVars, exVars>>

\* io.ReadAll(remoteFile)
RSFRead ==
    /\ op \in RSFCallers /\ pc = "rsf:read"
    /\ \E data \in {FileData, <<>>} : RSFReturn(data)
    /\ UNCHANGED <<ctxVars, cfgFile, printed, dials, conn, pfVars, rcVars, exVars>>

\* ProjectDirExists up to the dial: os.Stat on a local context, c.DialSSH() otherwise
PDEStart ==
    /\ op = "ProjectDirExists" /\ pc = "start"
    /\ IF IsLocal(kind)
       THEN /\ \E r \in {<<"false", "nil">>, <<"true", "stat">>, <<"true", "nil">>} :
                 FileReturn(r[1], r[2])
            /\ UNCHANGED <<dials, conn>>
       ELSE \/ DialOwn(FALSE) /\ FileReturn("false", "dial") /\ UNCHANGED conn
            \/ DialOwn(TRUE) /\ pc' = "pde:sftp" /\ UNCHANGED ret
    /\ UNCHANGED <<ctxVars, cfgFile, printed, pfVars, rcVars, exVars>>

\* sftp.NewClient(client)
PDESftp ==
    /\ op = "ProjectDirExists" /\ pc = "pde:sftp"
    /\ \/ FileReturn("false", "sftp")
       \/ pc' = "pde:stat" /\ UNCHANGED <<ret, ssh>>
    /\ UNCHANGED <<ctxVars, cfgFile, printed, dials, conn, pfVars, rcVars, exVars>>

\* sftpClient.Stat(c.ProjectDir)
PDEStat ==
    /\ op = "ProjectDirExists" /\ pc = "pde:stat"
    /\ \E found \in {"false", "true"} : FileReturn(found, "nil")
    /\ UNCHANGED <<ctxVars, cfgFile, printed, dials, conn, pfVars, rcVars, exVars>>

\* UploadFile: c.DialSSH(), on a local context too
UFDial ==
    /\ op = "UploadFile" /\ pc = "start"
    /\ \/ DialOwn(FALSE) /\ FileReturn(<<>>, "dial") /\ UNCHANGED conn
       \/ DialOwn(TRUE) /\ pc' = "uf:sftp" /\ UNCHANGED ret
    /\ UNCHANGED <<ctxVars, cfgFile, printed, pfVars, rcVars, exVars>>

\* log.Fatal: os.Exit(1), the deferred calls do not run
Fatal ==
    /\ pc' = "exited"
    /\ UNCHANGED <<ret, ssh>>

\* sftp.NewClient(client), log.Fatal on its error
UFSftp ==
    /\ op = "UploadFile" /\ pc = "uf:sftp"
    /\ \/ Fatal
       \/ pc' = "uf:open" /\ UNCHANGED <<ret, ssh>>
    /\ UNCHANGED <<ctxVars, cfgFile, printed, dials, conn, pfVars, rcVars, exVars>>

\* os.Open(source), log.Fatal on its error
UFOpenLocal ==
    /\ op = "UploadFile" /\ pc = "uf:open"
    /\ \/ Fatal
       \/ pc' = "uf:create" /\ UNCHANGED <<ret, ssh>>
    /\ UNCHANGED <<ctxVars, cfgFile, printed, dials, conn, pfVars, rcVars, exVars>>

\* sftpClient.Create(destination)
UFCreate ==
    /\ op = "UploadFile" /\ pc = "uf:create"
    /\ \/ FileReturn(<<>>, "create")
       \/ pc' = "uf:copy" /\ UNCHANGED <<ret, ssh>>
    /\ UNCHANGED <<ctxVars, cfgFile, printed, dials, conn, pfVars, rcVars, exVars>>

\* remoteFile.ReadFrom(localFile)
UFReadFrom ==
    /\ op = "UploadFile" /\ pc = "uf:copy"
    /\ \E e \in {"copy", "nil"} : FileReturn(<<>>, e)
    /\ UNCHANGED <<ctxVars, cfgFile, printed, dials, conn, pfVars, rcVars, exVars>>

InitFile ==
    /\ op \in FileOps
    /\ kind \in {"local", "remote"} /\ goos = "linux"
    /\ args = NoArg /\ printed = <<>> /\ cfgFile = EmptyConfig
    /\ ssh = <<>> /\ dials = 0
    /\ PFIdle /\ RCIdle /\ ExIdle
    /\ pc = (IF op = "ReadSmallFile" THEN "rsf:start" ELSE "start") /\ conn = 0 /\ ret = NoRet

NextFile ==
    \/ RSFStart
    \/ RSFSftp
    \/ RSFOpen
    \/ RSFRead
    \/ PDEStart
    \/ PDESftp
    \/ PDEStat
    \/ UFDial
    \/ UFSftp
    \/ UFOpenLocal
    \/ UFCreate
    \/ UFReadFrom

SpecFile == InitFile /\ [][NextFile]_vars

(***************************************************************************)
(* The attached exec stream: Docker's frames, and stdcopy.StdCopy          *)
(***************************************************************************)
MaxFrames == 2

\* the stream ids of a frame header
Stdin == 0
Stdout == 1
Stderr == 2
Systemerr == 3

\* the length of a frame header
HeaderLen == 8

\* the payloads a frame may carry; the last one reads like the header of a frame
PayloadPool == { <<>>, <<1>>, <<2, 0, 0, 0, 0, 0, 0, 1>> }

FramePool == {[id |-> i, payload |-> pl] : i \in {Stdout, Stderr, Systemerr}, pl \in PayloadPool}

\* a 32-bit length, big-endian
BE32(n) == << (n \div 16777216) % 256, (n \div 65536) % 256, (n \div 256) % 256, n % 256 >>

\* a frame on the wire: stream id, three reserved bytes, the length, the payload
EncodeFrame(f) == <<f.id, 0, 0, 0>> \o BE32(Len(f.payload)) \o f.payload

RECURSIVE EncodeFrames(_)
EncodeFrames(fs) == IF fs = <<>> THEN <<>> ELSE EncodeFrame(Head(fs)) \o EncodeFrames(Tail(fs))

\* binary.BigEndian.Uint32 of bytes 5..8 of a header
FrameSize(h) == ((h[5] * 256 + h[6]) * 256 + h[7]) * 256 + h[8]

\* one round of StdCopy's loop on the unread bytes `in`:
\* [do |-> "eof"] the stream ends (also inside a header or a payload),
\* [do |-> "write", dst, data, rest] a payload goes to a sink,
\* [do |-> "error"] a Systemerr frame or an unknown stream id
StdCopyStep(in) ==
    IF Len(in) < HeaderLen THEN [do |-> "eof"]
    ELSE IF in[1] \notin {Stdin, Stdout, Stderr, Systemerr} THEN [do |-> "error"]
    ELSE IF Len(in) < HeaderLen + FrameSize(in) THEN [do |-> "eof"]
    ELSE IF in[1] = Systemerr THEN [do |-> "error"]
    ELSE [do |-> "write",
          dst |-> IF in[1] = Stderr THEN "stderr" ELSE "stdout",
          data |-> SubSeq(in, HeaderLen + 1, HeaderLen + FrameSize(in)),
          rest |-> SubSeq(in, HeaderLen + FrameSize(in) + 1, Len(in))]

(***************************************************************************)
(* SDK.ExecInContainer / ExecInContainerInteractive and DockerClient.Exec  *)
(***************************************************************************)
ExecOps == {"ExecInContainer", "ExecInContainerInteractive"}

\* what the reader Exec takes for opts.Stdin may hold: nothing, or typed bytes
StdinPool == {<<>>, <<1>>, <<1, 2>>}

\* opts.AttachStdin as ExecSimple and ExecInteractive set it
ExecAttachStdin(o) == o = "ExecInContainerInteractive"

\* opts.Tty as ExecSimple and ExecInteractive set it
ExecTty(o) == o = "ExecInContainerInteractive"

\* an Exec that copies the stream directly whatever opts.Tty says
ExecCopiesDirectlyAlways(tty) == TRUE

\* if opts.Tty { io.Copy(opts.Stdout, resp.Reader) } else { stdcopy.StdCopy(...) }
ExecCopiesDirectly(tty) == tty

\* a wait on errCh that takes every result of the copy for a success
CopyFailedNever(err) == FALSE

\* if err := <-errCh; err != nil && err != io.EOF
CopyFailed(err) == err # Nil /\ err # "EOF"

\* the Docker API call `call` has returned err
Called(call, err) == Append(exCalls, [call |-> call, err |-> err])

\* a return of ExecInContainer[Interactive], with its deferred cli.Close()
ExecReturn(code, err) ==
    /\ pc' = "returned"
    /\ ret' = [out |-> code, err |-> err]
    /\ ssh' = DockerClientClose(ssh, sshCli)

\* s.GetDockerClient(): GetContext, then docker.GetDockerCli
ExecGetClient ==
    /\ op \in ExecOps /\ pc = "start"
    /\ \/ \* GetContext fails
          /\ pc' = "returned" /\ ret' = [out |-> -1, err |-> "context"]
          /\ UNCHANGED <<ssh, dials, sshCli>>
       \/ \E r \in GetDockerCliResults(ssh, dials) :
            /\ ssh' = r.ssh /\ dials' = r.dials
            /\ IF r.err # "nil"
               THEN pc' = "returned" /\ ret' = [out |-> -1, err |-> r.err] /\ UNCHANGED sshCli
               ELSE pc' = "ex:create" /\ sshCli' = r.cli /\ UNCHANGED ret
    /\ UNCHANGED <<ctxVars, cfgFile, printed, pfVarsButCli, conn, rcVars, exVars>>

\* the type assertion on d.CLI and cli.ContainerExecCreate
ExecCreate ==
    /\ op \in ExecOps /\ pc = "ex:create"
    /\ \/ ExecReturn(-1, "CLI is not a *client.Client") /\ UNCHANGED exCalls
       \/ /\ exCalls' = Called("create", ApiErr)
          /\ ExecReturn(-1, Wrap("failed to create exec", ApiErr))
       \/ /\ exCalls' = Called("create", Nil)
          /\ pc' = "ex:attach" /\ UNCHANGED <<ret, ssh>>
    /\ UNCHANGED <<ctxVars, cfgFile, printed, dials, pfVars, conn, rcVars, exStdin, exSessIn, exFrames, exCode, exIn, exOut, exErr>>

\* cli.ContainerExecAttach: on success resp.Reader carries the stream
ExecAttach ==
    /\ op \in ExecOps /\ pc = "ex:attach"
    /\ \/ /\ exCalls' = Called("attach", ApiErr)
          /\ ExecReturn(-1, Wrap("failed to attach to exec", ApiErr)) /\ UNCHANGED exIn
       \/ /\ exCalls' = Called("attach", Nil)
          /\ pc' = "ex:copy" /\ exIn' = EncodeFrames(exFrames)
          /\ UNCHANGED <<ret, ssh>>
    /\ UNCHANGED <<ctxVars, cfgFile, printed, dials, pfVars, conn, rcVars, exStdin, exSessIn, exFrames, exCode, exOut, exErr>>

\* the copy has ended with err: <-errCh and the check of what it received
ExecCopyEnds(err) ==
    /\ exCalls' = Called("copy", err)
    /\ IF CopyFailed(err)
       THEN ExecReturn(-1, Wrap("failed to copy output", err))
       ELSE pc' = "ex:inspect" /\ UNCHANGED <<ret, ssh>>

\* the copy goroutine and <-errCh: one round of the copy, its end, or its failure
ExecCopy ==
    /\ op \in ExecOps /\ pc = "ex:copy"
    /\ \/ \* the reader fails
          /\ ExecCopyEnds("read error")
          /\ UNCHANGED <<exIn, exOut, exErr>>
       \/ /\ ExecCopiesDirectly(ExecTty(op))
          /\ exOut' = exOut \o exIn /\ exIn' = <<>>
          /\ ExecCopyEnds(Nil)
          /\ UNCHANGED exErr
       \/ /\ ~ExecCopiesDirectly(ExecTty(op))
          /\ LET r == StdCopyStep(exIn)
             IN CASE r.do = "eof" ->
                       /\ ExecCopyEnds(Nil)
                       /\ UNCHANGED <<exIn, exOut, exErr>>
                  [] r.do = "error" ->
                       /\ ExecCopyEnds("stream error")
                       /\ UNCHANGED <<exIn, exOut, exErr>>
                  [] r.do = "write" ->
                       /\ exIn' = r.rest
                       /\ exOut' = IF r.dst = "stdout" THEN exOut \o r.data ELSE exOut
                       /\ exErr' = IF r.dst = "stderr" THEN exErr \o r.data ELSE exErr
                       /\ UNCHANGED <<pc, ret, ssh, exCalls>>
    /\ UNCHANGED <<ctxVars, cfgFile, printed, dials, pfVars, conn, rcVars, exStdin, exSessIn, exFrames, exCode>>

\* cli.ContainerExecInspect and the return of the exit code
ExecInspect ==
    /\ op \in ExecOps /\ pc = "ex:inspect"
    /\ \/ /\ exCalls' = Called("inspect", ApiErr)
          /\ ExecReturn(-1, Wrap("failed to inspect exec", ApiErr))
       \/ /\ exCalls' = Called("inspect", Nil)
          /\ ExecReturn(exCode, Nil)
    /\ UNCHANGED <<ctxVars, cfgFile, printed, dials, pfVars, conn, rcVars, exStdin, exSessIn, exFrames, exCode, exIn, exOut, exErr>>

InitExec ==
    /\ op \in ExecOps
    /\ kind \in {"local", "remote"} /\ goos = "linux"
    /\ args = NoArg /\ printed = <<>> /\ cfgFile = EmptyConfig
    /\ ssh = <<>> /\ dials = 0
    /\ PFIdle /\ RCIdle
    /\ pc = "start" /\ conn = 0 /\ ret = NoRet
    /\ exStdin \in StdinPool /\ exSessIn = <<>>
    /\ exFrames \in SeqsUpTo(FramePool, MaxFrames) /\ exCode \in {0, 1}
    /\ exIn = <<>> /\ exOut = <<>> /\ exErr = <<>> /\ exCalls = <<>>

NextExec ==
    \/ ExecGetClient
    \/ ExecCreate
    \/ ExecAttach
    \/ ExecCopy
    \/ ExecInspect

SpecExec == InitExec /\ [][NextExec]_vars

(***************************************************************************)
(* Claims about Exec                                                       *)
(***************************************************************************)
\* the payloads of the frames of fs tagged id, concatenated in stream order
RECURSIVE PayloadsOf(_, _)
PayloadsOf(fs, id) ==
    IF fs = <<>> THEN <<>>
    ELSE (IF Head(fs).id = id THEN Head(fs).payload ELSE <<>>) \o PayloadsOf(Tail(fs), id)

\* the copy of a non-TTY Exec has read its stream to the end
DemuxDone ==
    /\ op = "ExecInContainer"
    /\ pc = "ex:inspect" \/ (pc = "returned" /\ Len(exCalls) = 4)

\* C6: when a non-TTY Exec has copied a stream of frames tagged stdout or stderr to
\* its end, the stdout sink holds exactly the stdout payloads in stream order and
\* the stderr sink exactly the stderr payloads in stream order.
C6_NonTTYDemux ==
    (DemuxDone /\ \A k \in 1..Len(exFrames) : exFrames[k].id \in {Stdout, Stderr})
        => (exOut = PayloadsOf(exFrames, Stdout) /\ exErr = PayloadsOf(exFrames, Stderr))

\* a stderr frame and then a stdout frame whose payload reads like a header were
\* copied, each to its sink
C6_Witness ==
    /\ DemuxDone /\ pc = "returned"
    /\ exFrames = <<[id |-> Stderr, payload |-> <<1>>],
                    [id |-> Stdout, payload |-> <<2, 0, 0, 0, 0, 0, 0, 1>>]>>
    /\ exOut = <<2, 0, 0, 0, 0, 0, 0, 1>> /\ exErr = <<1>>

\* C26: in an interactive Exec (stdin, stdout and stderr attached, with a TTY) the
\* bytes of the configured Stdin have been delivered to the input of the exec
\* session by the time the session has run to its end.
C26_StdinDelivered ==
    (ExecAttachStdin(op) /\ ExecTty(op) /\ pc = "returned" /\ ret.err = Nil)
        => exSessIn = exStdin

ExecSteps == <<"create", "attach", "copy", "inspect">>

\* the attached stream has been read to its end
AtEOF == IF ExecCopiesDirectly(ExecTty(op)) THEN exIn = <<>> ELSE StdCopyStep(exIn).do = "eof"

\* C11: Exec calls exec-create, exec-attach, the copy and exec-inspect in this order,
\* makes no call after one that failed, inspects only when the copy has read the
\* stream to its end, and returns the inspected exit code with a nil error when all
\* four succeeded and -1 with an error otherwise.
C11_ExecSequence ==
    (op \in ExecOps) =>
        /\ Len(exCalls) <= 4
        /\ \A k \in 1..Len(exCalls) : exCalls[k].call = ExecSteps[k]
        /\ \A k \in 1..(Len(exCalls) - 1) : exCalls[k].err = Nil
        /\ Len(exCalls) = 4 => AtEOF
        /\ pc = "returned" =>
              IF Len(exCalls) = 4 /\ exCalls[4].err = Nil
              THEN ret = [out |-> exCode, err |-> Nil]
              ELSE ret.out = -1 /\ ret.err # Nil

\* an Exec whose command exits with 1 has returned after its four calls, and the
\* output it copied is in the sinks
C11_Witness ==
    /\ op = "ExecInContainer" /\ pc = "returned"
    /\ Len(exCalls) = 4 /\ ret = [out |-> 1, err |-> Nil]
    /\ exOut # <<>> /\ exErr # <<>>

(***************************************************************************)
(* docker.GetDatabaseUris                                                  *)
(***************************************************************************)
\* a return of GetDatabaseUris, with its deferred dockerCli.Close()
GDUReturn(out, err) ==
    /\ pc' = "returned"
    /\ ret' = [out |-> out, err |-> err]
    /\ ssh' = DockerClientClose(ssh, sshCli)

\* GetDockerCli(c) and defer dockerCli.Close()
GDUGetClient ==
    /\ op = "GetDatabaseUris" /\ pc = "start"
    /\ \E r \in GetDockerCliResults(ssh, dials) :
         /\ ssh' = r.ssh /\ dials' = r.dials
         /\ IF r.err # "nil"
            THEN pc' = "returned" /\ ret' = [out |-> <<>>, err |-> r.err] /\ UNCHANGED sshCli
            ELSE pc' = "gdu:container" /\ sshCli' = r.cli /\ UNCHANGED ret
    /\ UNCHANGED <<ctxVars, cfgFile, printed, pfVarsButCli, conn, rcVars, exVars>>

\* dockerCli.GetContainerName(c, c.DatabaseService, false)
GDUContainer ==
    /\ op = "GetDatabaseUris" /\ pc = "gdu:container"
    /\ \/ \E e \in {"list", "container not found"} : GDUReturn(<<>>, e)
       \/ pc' = "gdu:secret" /\ UNCHANGED <<ret, ssh>>
    /\ UNCHANGED <<ctxVars, cfgFile, printed, dials, pfVars, conn, rcVars, exVars>>

\* GetSecret: ContainerInspect, then the secret's file when the container mounts
\* it (c.ReadSmallFile), the container's environment otherwise (GetConfigEnv)
GDUSecret ==
    /\ op = "GetDatabaseUris" /\ pc = "gdu:secret"
    /\ \/ \E e \in {"inspect", "env not found"} : GDUReturn(<<>>, e)
       \/ pc' = "rsf:start" /\ UNCHANGED <<ret, ssh>>
       \/ pc' = "gdu:uris" /\ ret' = [out |-> <<"e">>, err |-> "none"] /\ UNCHANGED ssh
    /\ UNCHANGED <<ctxVars, cfgFile, printed, dials, pfVars, conn, rcVars, exVars>>

\* the URIs are built around the password and returned
GDUUris ==
    /\ op = "GetDatabaseUris" /\ pc = "gdu:uris"
    /\ GDUReturn(ret.out, "nil")
    /\ UNCHANGED <<ctxVars, cfgFile, printed, dials, pfVars, conn, rcVars, exVars>>

InitGDU ==
    /\ op = "GetDatabaseUris"
    /\ kind \in {"local", "remote"} /\ goos = "linux"
    /\ args = NoArg /\ printed = <<>> /\ cfgFile = EmptyConfig
    /\ ssh = <<>> /\ dials = 0
    /\ PFIdle /\ RCIdle /\ ExIdle
    /\ pc = "start" /\ conn = 0 /\ ret = NoRet

NextGDU ==
    \/ GDUGetClient
    \/ GDUContainer
    \/ GDUSecret
    \/ GDUUris

\* C17: RunCommand returns a non-nil error and the empty output whenever the
\* command fails: locally when it cannot be spawned or exits with a non-zero
\* status, remotely when the session fails or the command exits with a status
\* other than 0 and 130
C17_FailureGivesErrorAndNoOutput ==
    (op = "RunCommand" /\ pc = "returned")
        => /\ ret.err # "nil" => ret.out = <<>>
           /\ (IsLocal(kind) /\ rcExit # 0) => ret.err # "nil"
           /\ (~IsLocal(kind) /\ rcExit \notin {0, 130}) => ret.err # "nil"
           /\ rcWait.type = "other" => ret.err # "nil"

C17_Witness ==
    /\ op = "RunCommand" /\ pc = "returned" /\ ~IsLocal(kind)
    /\ rcExit = 1 /\ rcWait.type = "ExitError" /\ rcOutput # <<>>
    /\ ret.err = "wait" /\ ret.out = <<>>

(***************************************************************************)
(* docker.GetSecret, docker.GetConfigEnv, and the calls of                 *)
(* DockerClient.GetContainerName and DockerClient.GetServiceIp             *)
(***************************************************************************)
MaxEnv == 2
MaxCtrs == 2

\* strings.SplitN(s, sep, n) for a one-character separator and n > 0
RECURSIVE SplitNAcc(_, _, _, _, _)
SplitNAcc(s, sep, n, cur, acc) ==
    IF Len(acc) = n - 1 THEN Append(acc, cur \o s)
    ELSE IF s = <<>> THEN Append(acc, cur)
    ELSE IF Head(s) = sep THEN SplitNAcc(Tail(s), sep, n, <<>>, Append(acc, cur))
    ELSE SplitNAcc(Tail(s), sep, n, Append(cur, Head(s)), acc)

\* a split with no limit on the number of parts
SplitNUnlimited(s, sep, n) == Split(s, sep)

SplitN(s, sep, n) == SplitNAcc(s, sep, n, <<>>, <<>>)

\* filepath.Clean of an absolute path, on its segments
RECURSIVE Clean(_, _)
Clean(segs, acc) ==
    IF segs = <<>> THEN acc
    ELSE IF Head(segs) \in {"", "."} THEN Clean(Tail(segs), acc)
    ELSE IF Head(segs) = ".." THEN Clean(Tail(segs), SubSeq(acc, 1, Len(acc) - 1))
    ELSE Clean(Tail(segs), Append(acc, Head(segs)))

\* filepath.Join(dir, name): the segments of the cleaned path
Join(dir, name) == Clean(dir \o [k \in 1..Len(Split(name, "/")) |-> Str(Split(name, "/")[k])], <<>>)

\* filepath.Join("/run/secrets", secretName)
SecretTarget(secretName) == Join(<<"run", "secrets">>, secretName)

\* a GetSecret that never takes the secret for mounted
SecretMountedNever(json, secretName) == FALSE

\* for _, mount := range containerJSON.Mounts { if mount.Destination == expectedTarget
SecretMounted(json, secretName) ==
    \E k \in 1..Len(json.mounts) : json.mounts[k] = SecretTarget(secretName)

\* a match that ignores white space around the name of the entry
EnvMatchesTrimmed(parts, envName) == Len(parts) = 2 /\ TrimSpace(parts[1]) = envName

\* len(parts) == 2 && parts[0] == envName
EnvMatches(parts, envName) == Len(parts) = 2 /\ parts[1] = envName

\* the loop of GetConfigEnv over containerJSON.Config.Env
RECURSIVE EnvLookup(_, _)
EnvLookup(env, envName) ==
    IF env = <<>> THEN [val |-> <<>>, err |-> "environment variable not found in container"]
    ELSE IF EnvMatches(SplitN(Head(env), "=", 2), envName)
    THEN [val |-> SplitN(Head(env), "=", 2)[2], err |-> Nil]
    ELSE EnvLookup(Tail(env), envName)

\* docker.GetConfigEnv: [val, err]
GetConfigEnv(daemon, containerName, envName) ==
    LET r == ContainerInspect(daemon, containerName)
    IN IF r.err # Nil
       THEN [val |-> <<>>, err |-> Wrap("error inspecting container", r.err)]
       ELSE EnvLookup(r.json.env, envName)

\* docker.GetSecret up to its return: [file, val, err]; file says that it returns
\* c.ReadSmallFile(<project dir>/secrets/<name>)
GetSecret(daemon, containerName, secretName) ==
    LET r == ContainerInspect(daemon, containerName)
    IN IF r.err # Nil THEN [file |-> FALSE, val |-> <<>>, err |-> r.err]
       ELSE IF SecretMounted(r.json, secretName) THEN [file |-> TRUE, val |-> <<>>, err |-> Nil]
       ELSE [file |-> FALSE] @@ GetConfigEnv(daemon, containerName, secretName)

BridgeOps == {"GetSecret", "GetConfigEnv", "GetContainerName", "GetServiceIp"}

\* the entries of Config.Env a container may have
EnvPool ==
    { <<"B", "=", "e">>,
      <<"B", "=", "2", "=", "3">>,
      <<"C">>,
      <<"B", " ", "=", "4">>,
      <<"A", "=", "1">> }

\* the Mounts a container may have
MountPool ==
    { <<>>,
      << <<"run", "secrets", "B">> >>,
      << <<"data">>, <<"run", "secrets", "B">> >>,
      << <<"run", "secrets", "M">> >> }

\* the names a secret or a variable is asked by
NamePool == { <<"B">>, <<"M">>, <<"C">> }

\* the containers a daemon may run for GetContainerName
CtrPool ==
    { Ctr("p-db-1", "p", "db", <<>>, <<>>, {}),
      Ctr("p-db-2", "p", "db", <<>>, <<>>, {}),
      Ctr("p-db-dev-1", "p", "db-dev", <<>>, <<>>, {}),
      Ctr("q-db-1", "q", "db", <<>>, <<>>, {}) }

\* the networks a container may be attached to
NetPool ==
    { [net |-> "p_default", ip |-> "ip1"],
      [net |-> "q_default", ip |-> "ip2"],
      [net |-> "bridge", ip |-> "ip3"] }

\* the arguments of a call: the daemon behind the client, the context, and the
\* container, secret or variable, and service asked for
Args(daemon, c, container, name, never) ==
    [daemon |-> daemon, c |-> c, container |-> container, name |-> name,
     service |-> "db", never |-> never]

ArgsOf(o) ==
    CASE o = "GetSecret" ->
           { Args([up |-> u, containers |-> <<Ctr("c1", "p", "db", m, e, {})>>],
                  [project |-> "p", profile |-> ""], "c1", n, FALSE) :
               u \in BOOLEAN, m \in MountPool, e \in SeqsUpTo(EnvPool, MaxEnv), n \in NamePool }
      [] o = "GetConfigEnv" ->
           { Args([up |-> u, containers |-> <<Ctr("c1", "p", "db", <<>>, e, {})>>],
                  [project |-> "p", profile |-> ""], "c1", n, FALSE) :
               u \in BOOLEAN, e \in SeqsUpTo(EnvPool, MaxEnv), n \in NamePool }
      [] o = "GetContainerName" ->
           { Args([up |-> u, containers |-> cs],
                  [project |-> "p", profile |-> pr], "", <<>>, nv) :
               u \in BOOLEAN, cs \in SeqsUpTo(CtrPool, MaxCtrs), pr \in {"", "dev"},
               nv \in BOOLEAN }
      [] o = "GetServiceIp" ->
           { Args([up |-> u, containers |-> <<Ctr("c1", "p", "db", <<>>, <<>>, ns)>>],
                  [project |-> pj, profile |-> ""], cn, <<>>, FALSE) :
               u \in BOOLEAN, ns \in SUBSET NetPool, pj \in {"p", "q"}, cn \in {"c1", ""} }

InitBridge ==
    /\ op \in BridgeOps
    /\ kind \in (IF op = "GetSecret" THEN {"local", "remote"} ELSE {"local"})
    /\ goos = "linux"
    /\ args \in ArgsOf(op) /\ printed = <<>> /\ cfgFile = EmptyConfig
    /\ ssh = <<>> /\ dials = 0
    /\ PFIdle /\ RCIdle /\ ExIdle
    /\ pc = "start" /\ conn = 0 /\ ret = NoRet

\* a return of one of these functions
BridgeReturn(out, err) ==
    /\ pc' = "returned"
    /\ ret' = [out |-> out, err |-> err]

\* GetSecret: it returns what GetConfigEnv returns, its own inspect error, or goes
\* on to c.ReadSmallFile
CallGetSecret ==
    /\ op = "GetSecret" /\ pc = "start"
    /\ LET r == GetSecret(args.daemon, args.container, args.name)
       IN IF r.file THEN pc' = "rsf:start" /\ UNCHANGED ret
          ELSE BridgeReturn(r.val, r.err)
    /\ UNCHANGED <<ctxVars, cfgFile, printed, ssh, dials, conn, pfVars, rcVars, exVars>>

CallGetConfigEnv ==
    /\ op = "GetConfigEnv" /\ pc = "start"
    /\ LET r == GetConfigEnv(args.daemon, args.container, args.name)
       IN BridgeReturn(r.val, r.err)
    /\ UNCHANGED <<ctxVars, cfgFile, printed, ssh, dials, conn, pfVars, rcVars, exVars>>

CallGetContainerName ==
    /\ op = "GetContainerName" /\ pc = "start"
    /\ LET r == GetContainerName(args.daemon, args.c, args.service, args.never)
       IN BridgeReturn(r.val, r.err)
    /\ UNCHANGED <<ctxVars, cfgFile, printed, ssh, dials, conn, pfVars, rcVars, exVars>>

CallGetServiceIp ==
    /\ op = "GetServiceIp" /\ pc = "start"
    /\ LET r == GetServiceIp(args.daemon, args.c, args.container)
       IN BridgeReturn(r.ip, r.err)
    /\ UNCHANGED <<ctxVars, cfgFile, printed, ssh, dials, conn, pfVars, rcVars, exVars>>

NextBridge ==
    \/ CallGetSecret
    \/ CallGetConfigEnv
    \/ CallGetContainerName
    \/ CallGetServiceIp
    \/ RSFStart
    \/ RSFSftp
    \/ RSFOpen
    \/ RSFRead

SpecBridge == InitBridge /\ [][NextBridge]_vars

(***************************************************************************)
(* Claims about GetSecret and GetConfigEnv                                 *)
(***************************************************************************)
\* the container the call inspects
Inspected == Head(args.daemon.containers)

\* the container has a mount at /run/secrets/<name>
MountedAt(name) ==
    \E k \in 1..Len(Inspected.mounts) : Inspected.mounts[k] = <<"run", "secrets", Str(name)>>

\* the position of the first '=' of an entry, 0 when it has none
FirstEq(entry) ==
    IF \E k \in 1..Len(entry) : entry[k] = "="
    THEN CHOOSE k \in 1..Len(entry) :
           entry[k] = "=" /\ \A j \in 1..(k - 1) : entry[j] # "="
    ELSE 0

\* the entry sets the variable of this name
Sets(entry, name) == FirstEq(entry) > 0 /\ SubSeq(entry, 1, FirstEq(entry) - 1) = name

\* the container's environment has a variable of this name
HasVar(name) == \E k \in 1..Len(Inspected.env) : Sets(Inspected.env[k], name)

\* the text after the first '=' of the first entry that sets the variable
ValueOf(name) ==
    LET k == CHOOSE i \in 1..Len(Inspected.env) :
                 Sets(Inspected.env[i], name) /\ \A j \in 1..(i - 1) : ~Sets(Inspected.env[j], name)
        e == Inspected.env[k]
    IN SubSeq(e, FirstEq(e) + 1, Len(e))

\* C12: when the inspected container has a mount at /run/secrets/<name>, GetSecret
\* returns what the context's small-file reader read (the file's text, or the
\* empty string when the read failed) with a nil error, whether or not a variable
\* of that name is set
C12_MountedFilePreferred ==
    (op = "GetSecret" /\ pc = "returned" /\ args.daemon.up /\ MountedAt(args.name))
        => ret.err = Nil /\ ret.out \in {FileData, <<>>}

C12_Witness ==
    /\ op = "GetSecret" /\ pc = "returned" /\ args.daemon.up
    /\ MountedAt(args.name) /\ HasVar(args.name)
    /\ ret.out = FileData /\ ret.out # ValueOf(args.name)

\* C13: when the container can be inspected and has no mount for the secret,
\* GetSecret returns the value of the variable of exactly that name with a nil
\* error, and it returns an error exactly when there is neither a mount nor such
\* a variable
C13_EnvFallback ==
    (op = "GetSecret" /\ pc = "returned" /\ args.daemon.up)
        => /\ ~MountedAt(args.name) /\ HasVar(args.name)
                => ret.err = Nil /\ ret.out = ValueOf(args.name)
           /\ ret.err # Nil <=> (~MountedAt(args.name) /\ ~HasVar(args.name))

C13_Witness ==
    /\ op = "GetSecret" /\ pc = "returned" /\ args.daemon.up
    /\ ~MountedAt(args.name) /\ HasVar(args.name) /\ Inspected.mounts # <<>>
    /\ ret.err = Nil /\ ret.out = ValueOf(args.name) /\ dials = 0

\* C14: GetConfigEnv on an inspectable container returns the text after the first
\* '=' of the first entry whose text before its first '=' is the name; an entry
\* without '=' or with another name (one with a trailing space too) never
\* matches, and without a match it returns the not-found error
C14_GetConfigEnv ==
    (op = "GetConfigEnv" /\ pc = "returned" /\ args.daemon.up)
        => IF HasVar(args.name)
           THEN ret.err = Nil /\ ret.out = ValueOf(args.name)
           ELSE ret.err = "environment variable not found in container" /\ ret.out = <<>>

C14_Witness ==
    /\ op = "GetConfigEnv" /\ pc = "returned" /\ args.daemon.up
    /\ Len(Inspected.env) = 2 /\ ~Sets(Inspected.env[1], args.name)
    /\ ret.err = Nil /\ ret.out = <<"2", "=", "3">>

(***************************************************************************)
(* Claims about GetContainerName and GetServiceIp                          *)
(***************************************************************************)
\* the service the list is filtered by, for the contexts and flags of the calls
FilteredService ==
    CASE args.c.profile = "" -> "db"
      [] args.c.profile = "dev" /\ args.never -> "db"
      [] args.c.profile = "dev" /\ ~args.never -> "db-dev"

\* the container carries both compose labels the call asks for
Matches(ctr) ==
    /\ ("com.docker.compose.project=" \o args.c.project) \in ctr.labels
    /\ ("com.docker.compose.service=" \o FilteredService) \in ctr.labels

\* the positions of the daemon's containers that match
Matching == {k \in 1..Len(args.daemon.containers) : Matches(args.daemon.containers[k])}

\* C15: with the daemon answering, GetContainerName returns with a nil error the
\* name of the first container labelled com.docker.compose.project=<project> and
\* com.docker.compose.service=<service>, the service suffixed with -<profile>
\* exactly when the profile is non-empty and neverPrefixProfile is false, and
\* the empty name when no container matches
C15_GetContainerName ==
    (op = "GetContainerName" /\ pc = "returned" /\ args.daemon.up)
        => /\ ret.err = Nil
           /\ IF Matching = {} THEN ret.out = ""
              ELSE ret.out = args.daemon.containers[CHOOSE k \in Matching : \A j \in Matching : k <= j].names[1]

C15_Witness ==
    /\ op = "GetContainerName" /\ pc = "returned" /\ args.daemon.up
    /\ args.c.profile = "dev" /\ ~args.never
    /\ Len(args.daemon.containers) = 2 /\ 1 \notin Matching
    /\ ret.out = "p-db-dev-1"

\* the network the claim names: <project>_default
DefaultNetworkIps ==
    {n.ip : n \in {m \in Inspected.networks : m.net = args.c.project \o "_default"}}

\* the named container exists and the daemon answers
Inspectable == args.daemon.up /\ args.container = "c1"

\* C16: GetServiceIp returns the container's address on the network
\* <project>_default; when the container is not attached to it the error is the
\* network-not-found error, which differs from the error of a failed inspect
C16_GetServiceIp ==
    (op = "GetServiceIp" /\ pc = "returned")
        => /\ (Inspectable /\ DefaultNetworkIps # {})
                => ret.err = Nil /\ ret.out \in DefaultNetworkIps
           /\ (Inspectable /\ DefaultNetworkIps = {})
                => /\ ret.err = "network " \o args.c.project \o "_default not found in container"
                   /\ ret.err # Wrap("error inspecting container", ApiErr)
                   /\ ret.out = ""
           /\ ~Inspectable
                => ret.err = Wrap("error inspecting container", ApiErr) /\ ret.out = ""

C16_Witness ==
    /\ op = "GetServiceIp" /\ pc = "returned" /\ Inspectable
    /\ args.c.project = "q" /\ Cardinality(Inspected.networks) = 3
    /\ ret.out = "ip2" /\ ret.err = Nil

(***************************************************************************)
(* Claim about the errors of the Docker API calls                          *)
(***************************************************************************)
\* the operation contexts an API error is wrapped with
OperationContexts ==
    {"error inspecting container", "failed to create exec", "failed to attach to exec",
     "failed to inspect exec"}

\* the call has returned after a Docker API call of its own failed
ApiCallFailed ==
    /\ pc = "returned"
    /\ \/ op \in {"GetSecret", "GetConfigEnv", "GetServiceIp"}
            /\ ContainerInspect(args.daemon, args.container).err = ApiErr
       \/ op = "GetContainerName" /\ ~args.daemon.up
       \/ op \in ExecOps /\ \E k \in 1..Len(exCalls) : exCalls[k].err = ApiErr

\* C18: every failure of a Docker API call that one of these functions returns
\* (the inspect of GetSecret, GetConfigEnv and GetServiceIp, the list of
\* GetContainerName, the exec create, attach and inspect of Exec) is wrapped with
\* the operation's context and never returned bare
C18_ApiErrorsWrapped ==
    ApiCallFailed => ret.err \in {Wrap(what, ApiErr) : what \in OperationContexts}

(***************************************************************************)
(* Context.DialSSH                                                         *)
(***************************************************************************)
\* the hosts and host keys of the known_hosts file and of the servers
Hosts == {"h1", "h2"}
HostKeys == {"k1", "k2"}

\* the results of os.ReadFile and ssh.ParsePrivateKey on the key file
KeyFiles == {"unreadable", "garbage", "plain", "encrypted"}

\* the results of term.ReadPassword and ssh.ParsePrivateKeyWithPassphrase
Passphrases == {"unread", "wrong", "right"}

\* the calls of DialSSH: the key file, the passphrase typed, the known_hosts file
\* next to the key, and the server at SSHHostname
DialArgs ==
    { [key |-> k, pass |-> p, known |-> [ok |-> o, entries |-> es], host |-> "h1",
       server |-> [up |-> u, key |-> sk, accepts |-> a]] :
        k \in KeyFiles, p \in Passphrases, o \in BOOLEAN, es \in SUBSET (Hosts \X HostKeys),
        u \in BOOLEAN, sk \in HostKeys, a \in BOOLEAN }

\* a callback that accepts every host key
HostKeyCallbackInsecure(entries, host, key) == [type |-> "nil", want |-> {}]

\* the callback of knownhosts.New: nil when the file has this key for the host,
\* else a *knownhosts.KeyError whose Want holds the keys the file has for it
HostKeyCallback(entries, host, key) ==
    LET want == {e[2] : e \in {f \in entries : f[1] = host}}
    IN IF key \in want THEN [type |-> "nil", want |-> {}]
       ELSE [type |-> "KeyError", want |-> want]

\* ssh.Dial: the TCP connection, the key exchange with the host key callback,
\* then the authentication with the signer
SshDial(known, host, server) ==
    IF ~server.up THEN [type |-> "net", want |-> {}]
    ELSE IF HostKeyCallback(known.entries, host, server.key).type # "nil"
    THEN HostKeyCallback(known.entries, host, server.key)
    ELSE IF ~server.accepts THEN [type |-> "auth", want |-> {}]
    ELSE [type |-> "nil", want |-> {}]

UnknownHostLines ==
    << "The host key for your remote context is not known.",
       "This means your SSH known_hosts file doesn't have an entry for this host." >>

ChangedKeyLines ==
    << "The host key for your remote context does not match the expected key.",
       "This might indicate that the host's key has changed or that there could be a security issue.",
       "Please verify the new key with your host administrator.",
       "If the change is legitimate, update your known_hosts file by removing the old key and adding the new one." >>

SuggestLine == "Try running ssh -p <port> -t <user>@<host> and trying again"

\* a test that takes every key error for a changed key
WantIsEmptyNever(e) == FALSE

\* len(keyErr.Want) == 0
WantIsEmpty(e) == e.want = {}

\* what DialSSH prints for the error of ssh.Dial
DialErrorLines(e) ==
    IF e.type = "KeyError"
    THEN (IF WantIsEmpty(e) THEN UnknownHostLines ELSE ChangedKeyLines) \o <<SuggestLine>>
    ELSE <<>>

InitDial ==
    /\ op = "DialSSH" /\ kind = "remote" /\ goos = "linux"
    /\ args \in DialArgs /\ printed = <<>> /\ cfgFile = EmptyConfig
    /\ ssh = <<>> /\ dials = 0
    /\ PFIdle /\ RCIdle /\ ExIdle
    /\ pc = "start" /\ conn = 0 /\ ret = NoRet

\* a return of DialSSH: the client ("nil" or "client") and the error
DialReturn(client, err) ==
    /\ pc' = "returned"
    /\ ret' = [out |-> client, err |-> err]

\* os.ReadFile(c.SSHKeyPath) and ssh.ParsePrivateKey(key)
DialReadKey ==
    /\ op = "DialSSH" /\ pc = "start"
    /\ CASE args.key = "unreadable" -> DialReturn("nil", "error reading SSH key")
         [] args.key = "garbage" -> DialReturn("nil", "error parsing SSH key")
         [] args.key = "encrypted" -> pc' = "dial:passphrase" /\ UNCHANGED ret
         [] args.key = "plain" -> pc' = "dial:known_hosts" /\ UNCHANGED ret
    /\ UNCHANGED <<ctxVars, cfgFile, printed, ssh, dials, conn, pfVars, rcVars, exVars>>

\* the prompt, term.ReadPassword and ssh.ParsePrivateKeyWithPassphrase
DialPassphrase ==
    /\ op = "DialSSH" /\ pc = "dial:passphrase"
    /\ printed' = printed \o <<"Enter passphrase for SSH key", "">>
    /\ CASE args.pass = "unread" -> DialReturn("nil", "error reading passphrase")
         [] args.pass = "wrong" -> DialReturn("nil", "error parsing SSH key with passphrase")
         [] args.pass = "right" -> pc' = "dial:known_hosts" /\ UNCHANGED ret
    /\ UNCHANGED <<ctxVars, cfgFile, ssh, dials, conn, pfVars, rcVars, exVars>>

\* knownhosts.New(knownHostsPath)
DialKnownHosts ==
    /\ op = "DialSSH" /\ pc = "dial:known_hosts"
    /\ IF args.known.ok THEN pc' = "dial:dial" /\ UNCHANGED ret
       ELSE DialReturn("nil", "error creating known_hosts callback")
    /\ UNCHANGED <<ctxVars, cfgFile, printed, ssh, dials, conn, pfVars, rcVars, exVars>>

\* ssh.Dial, the messages for a *knownhosts.KeyError, and the return
DialConnect ==
    /\ op = "DialSSH" /\ pc = "dial:dial"
    /\ LET e == SshDial(args.known, args.host, args.server)
       IN IF e.type # "nil"
          THEN /\ printed' = printed \o DialErrorLines(e)
               /\ DialReturn("nil", Wrap("error dialing SSH", e.type))
          ELSE /\ DialReturn("client", Nil)
               /\ UNCHANGED printed
    /\ UNCHANGED <<ctxVars, cfgFile, ssh, dials, conn, pfVars, rcVars, exVars>>

NextDial ==
    \/ DialReadKey
    \/ DialPassphrase
    \/ DialKnownHosts
    \/ DialConnect

SpecDial == InitDial /\ [][NextDial]_vars

\* the known_hosts file has no key for the host
HostKeyUnknown == \A e \in args.known.entries : e[1] # args.host

\* the known_hosts file has keys for the host and the server's is not one of them
HostKeyChanged ==
    /\ \E e \in args.known.entries : e[1] = args.host
    /\ <<args.host, args.server.key>> \notin args.known.entries

\* the lines printed since the dial began: those after the passphrase prompt
DialPrinted ==
    IF args.key = "encrypted" THEN SubSeq(printed, 3, Len(printed)) ELSE printed

\* C19: DialSSH never returns a connection when the host key is unknown or has
\* changed; in both cases it returns an error, and once the server has presented
\* its key it prints a message that differs between the two cases, followed by
\* the suggestion of a manual ssh command
C19_HostKeyChecked ==
    (op = "DialSSH" /\ pc = "returned" /\ (HostKeyUnknown \/ HostKeyChanged))
        => /\ ret.out = "nil" /\ ret.err # Nil
           /\ ret.err = Wrap("error dialing SSH", "KeyError")
                => /\ HostKeyUnknown => DialPrinted = UnknownHostLines \o <<SuggestLine>>
                   /\ HostKeyChanged => DialPrinted = ChangedKeyLines \o <<SuggestLine>>
                   /\ UnknownHostLines # ChangedKeyLines
           /\ (args.key \in {"plain", "encrypted"} /\ (args.key = "encrypted" => args.pass = "right")
               /\ args.known.ok /\ args.server.up)
                => ret.err = Wrap("error dialing SSH", "KeyError")

C19_Witness ==
    /\ op = "DialSSH" /\ pc = "returned" /\ HostKeyChanged
    /\ args.known.entries = {<<"h1", "k1">>, <<"h2", "k2">>} /\ args.server.key = "k2"
    /\ args.server.accepts
    /\ ret.out = "nil" /\ DialPrinted = ChangedKeyLines \o <<SuggestLine>>

(***************************************************************************)
(* utils.GetContextFromArgs                                                *)
(* An argument is a sequence of pieces: the text --context is one piece,   *)
(* every other character is a piece of its own.                            *)
(***************************************************************************)
MaxArgs == 3

Quote == "\""
Blank == " "

\* the argument --context
ContextFlag == <<"--context">>

\* the arguments a command line is made of: --context, --context=a,
\* --context=a=b, --context=, the plain x and y, and the quoted ` "b" `
ArgvPool ==
    { ContextFlag,
      <<"--context", "=", "a">>,
      <<"--context", "=", "a", "=", "b">>,
      <<"--context", "=">>,
      <<"x">>,
      <<"y">>,
      <<Blank, Quote, "b", Quote, Blank>> }

\* strings.HasPrefix(arg, "--context=")
HasContextPrefix(arg) == Len(arg) >= 2 /\ arg[1] = "--context" /\ arg[2] = "="

\* strings.Trim(s, cutset)
RECURSIVE TrimCut(_, _)
TrimCut(s, cutset) ==
    IF s = <<>> THEN s
    ELSE IF Head(s) \in cutset THEN TrimCut(Tail(s), cutset)
    ELSE IF s[Len(s)] \in cutset THEN TrimCut(SubSeq(s, 1, Len(s) - 1), cutset)
    ELSE s

\* the loop of GetContextFromArgs over args: [filteredArgs, siteCtx]
RECURSIVE FilterArgs(_, _, _, _)
FilterArgs(rest, filteredArgs, skipNext, siteCtx) ==
    IF rest = <<>> THEN [filteredArgs |-> filteredArgs, siteCtx |-> siteCtx]
    ELSE IF Head(rest) = ContextFlag
    THEN FilterArgs(Tail(rest), filteredArgs, TRUE, siteCtx)
    ELSE IF HasContextPrefix(Head(rest))
    THEN FilterArgs(Tail(rest), filteredArgs, skipNext, Split(Head(rest), "=")[2])
    ELSE IF skipNext
    THEN FilterArgs(Tail(rest), filteredArgs, FALSE, Head(rest))
    ELSE FilterArgs(Tail(rest), Append(filteredArgs, Head(rest)), skipNext, siteCtx)

\* utils.GetContextFromArgs: root is the value of the root command's context flag,
\* or "undefined" when the root command has no such flag
GetContextFromArgs(root, argv) ==
    IF root = "undefined"
    THEN [out |-> [args |-> <<>>, ctx |-> <<>>], err |-> "flag accessed but not defined: context"]
    ELSE LET r == FilterArgs(argv, <<>>, FALSE, <<root>>)
         IN [out |-> [args |-> r.filteredArgs, ctx |-> TrimCut(r.siteCtx, {Quote, Blank})],
             err |-> Nil]

InitArgs ==
    /\ op = "GetContextFromArgs" /\ kind = "local" /\ goos = "linux"
    /\ args \in [root : {"d", "undefined"}, argv : SeqsUpTo(ArgvPool, MaxArgs)]
    /\ printed = <<>> /\ cfgFile = EmptyConfig
    /\ ssh = <<>> /\ dials = 0
    /\ PFIdle /\ RCIdle /\ ExIdle
    /\ pc = "start" /\ conn = 0 /\ ret = NoRet

CallGetContextFromArgs ==
    /\ op = "GetContextFromArgs" /\ pc = "start"
    /\ pc' = "returned"
    /\ ret' = GetContextFromArgs(args.root, args.argv)
    /\ UNCHANGED <<ctxVars, cfgFile, printed, ssh, dials, conn, pfVars, rcVars, exVars>>

NextArgs == CallGetContextFromArgs

SpecArgs == InitArgs /\ [][NextArgs]_vars

\* the argument has the form --context=VALUE
IsEqForm(arg) == Len(arg) >= 2 /\ arg[1] = "--context" /\ arg[2] = "="

\* every --context of the command line is followed by a value, an argument that
\* is not itself a context flag
RECURSIVE WellFormed(_)
WellFormed(argv) ==
    IF argv = <<>> THEN TRUE
    ELSE IF Head(argv) = ContextFlag
    THEN /\ Len(argv) >= 2
         /\ argv[2] # ContextFlag /\ ~IsEqForm(argv[2])
         /\ WellFormed(SubSeq(argv, 3, Len(argv)))
    ELSE WellFormed(Tail(argv))

\* the command line without its --context VALUE pairs and --context=VALUE arguments
RECURSIVE Remaining(_)
Remaining(argv) ==
    IF argv = <<>> THEN <<>>
    ELSE IF Head(argv) = ContextFlag THEN Remaining(SubSeq(argv, 3, Len(argv)))
    ELSE IF IsEqForm(Head(argv)) THEN Remaining(Tail(argv))
    ELSE <<Head(argv)>> \o Remaining(Tail(argv))

\* the values of the context flags of the command line, in order
RECURSIVE FlagValues(_)
FlagValues(argv) ==
    IF argv = <<>> THEN <<>>
    ELSE IF Head(argv) = ContextFlag
    THEN <<argv[2]>> \o FlagValues(SubSeq(argv, 3, Len(argv)))
    ELSE IF IsEqForm(Head(argv))
    THEN <<SubSeq(Head(argv), 3, Len(Head(argv)))>> \o FlagValues(Tail(argv))
    ELSE FlagValues(Tail(argv))

\* C20: on a command line whose --context flags all have a value,
\* GetContextFromArgs returns the arguments without the --context VALUE pairs and
\* the --context=VALUE arguments, in order, and as context the value of the last
\* such flag without its surrounding quotes and spaces, or the value of the root
\* command's context flag when there is none
C20_ContextFlagStripped ==
    (op = "GetContextFromArgs" /\ pc = "returned" /\ args.root # "undefined"
     /\ WellFormed(args.argv))
        => /\ ret.err = Nil
           /\ ret.out.args = Remaining(args.argv)
           /\ ret.out.ctx = IF FlagValues(args.argv) = <<>> THEN <<args.root>>
                            ELSE TrimCut(FlagValues(args.argv)[Len(FlagValues(args.argv))],
                                         {Quote, Blank})

(***************************************************************************)
(* The configuration file: ContextExists, GetContext, SaveContext and the  *)
(* set-context, use-context and delete-context commands                    *)
(* A context is [name, db]: its Name and its DatabaseService.              *)
(***************************************************************************)
\* the names a context is saved, selected or deleted by
CtxNames == {"", "a", "A"}

\* the values of the database-service flag and field: "" when not given
DbValues == {"", "pg"}

\* Unicode case folding of a name
Fold(name) == IF name = "A" THEN "a" ELSE name

\* strings.EqualFold
EqualFold(x, y) == Fold(x) = Fold(y)

\* the positions of the contexts whose name folds to this one
FoldMatches(cfg, name) ==
    {k \in 1..Len(cfg.contexts) : EqualFold(cfg.contexts[k].name, name)}

\* the positions of the contexts of exactly this name
ExactMatches(cfg, name) == {k \in 1..Len(cfg.contexts) : cfg.contexts[k].name = name}

First(S) == CHOOSE k \in S : \A j \in S : k <= j

\* config.ContextExists
ContextExists(cfg, name) == FoldMatches(cfg, name) # {}

\* config.GetContext: the first context whose name folds to name, else Context{Name: name}
GetContext(cfg, name) ==
    IF FoldMatches(cfg, name) # {} THEN cfg.contexts[First(FoldMatches(cfg, name))]
    ELSE [name |-> name, db |-> ""]

\* SaveContext: the database defaults it sets on ctx
WithDefaults(ctx) == [ctx EXCEPT !.db = IF @ = "" THEN "mariadb" ELSE @]

\* SaveContext: cfg.CurrentContext after the save
CurrentAfterSave(cfg, name, updated, setDefault) ==
    IF setDefault \/ (~updated /\ cfg.current = "") THEN name ELSE cfg.current

\* SaveContext up to Save(cfg): the configuration it writes
SaveContext(cfg, ctx, setDefault) ==
    LET c == WithDefaults(ctx)
        updated == ExactMatches(cfg, c.name) # {}
    IN [current |-> CurrentAfterSave(cfg, c.name, updated, setDefault),
        contexts |-> IF updated
                     THEN [cfg.contexts EXCEPT ![First(ExactMatches(cfg, c.name))] = c]
                     ELSE Append(cfg.contexts, c)]

\* the commands and calls on the configuration file, with the file before them
NoCmd == [cmd |-> "none", ctx |-> [name |-> "", db |-> ""], setDefault |-> FALSE,
          before |-> EmptyConfig]

Cmd(cmd, ctx, setDefault) ==
    [cmd |-> cmd, ctx |-> ctx, setDefault |-> setDefault, before |-> cfgFile]

InitConfig ==
    /\ op \in {"SaveContext", "config"} /\ kind = "local" /\ goos = "linux"
    /\ args = NoCmd /\ printed = <<>> /\ cfgFile = EmptyConfig
    /\ ssh = <<>> /\ dials = 0
    /\ PFIdle /\ RCIdle /\ ExIdle
    /\ pc = "start" /\ conn = 0 /\ ret = NoRet

\* os.WriteFile in Save(cfg): the file is written, or it is left as it was
Save(cfg, out) ==
    \/ cfgFile' = cfg /\ ret' = [out |-> out, err |-> Nil]
    \/ cfgFile' = cfgFile /\ ret' = [out |-> "", err |-> "write error"]

\* a call of config.SaveContext(ctx, setDefault)
CallSaveContext ==
    /\ op = "SaveContext"
    /\ \E name \in CtxNames, db \in DbValues, setDefault \in BOOLEAN :
         /\ args' = Cmd("SaveContext", WithDefaults([name |-> name, db |-> db]), setDefault)
         /\ Save(SaveContext(cfgFile, [name |-> name, db |-> db], setDefault), "saved")
    /\ UNCHANGED <<op, kind, goos, printed, ssh, dials, pc, conn, pfVars, rcVars, exVars>>

\* LoadFromFlags for the database-service flag: a flag that was not given keeps the
\* value of an existing context and sets the default of the flag on a new one
LoadFromFlags(flag, context, exists) ==
    IF flag # "" THEN [context EXCEPT !.db = flag]
    ELSE IF exists THEN context
    ELSE [context EXCEPT !.db = "mariadb"]

\* sitectl config set-context NAME [--database-service DB] [--default]
SetContextCmd ==
    /\ op = "config"
    /\ \E name \in CtxNames, flag \in DbValues, setDefault \in BOOLEAN :
         LET cc == [LoadFromFlags(flag, GetContext(cfgFile, name), ContextExists(cfgFile, name))
                      EXCEPT !.name = name]
         IN /\ args' = Cmd("set-context", WithDefaults(cc), setDefault)
            /\ \/ \* the flags or the remote input are rejected
                  cfgFile' = cfgFile /\ ret' = [out |-> "", err |-> "input error"]
               \/ Save(SaveContext(cfgFile, cc, setDefault), "saved")
    /\ UNCHANGED <<op, kind, goos, printed, ssh, dials, pc, conn, pfVars, rcVars, exVars>>

\* use-context: the loop that sets found
UseFinds(cfg, name) == ExactMatches(cfg, name) # {}

\* sitectl config use-context NAME
UseContextCmd ==
    /\ op = "config"
    /\ \E name \in CtxNames :
         /\ args' = Cmd("use-context", [name |-> name, db |-> ""], FALSE)
         /\ IF UseFinds(cfgFile, name)
            THEN Save([cfgFile EXCEPT !.current = name], "switched")
            ELSE cfgFile' = cfgFile /\ ret' = [out |-> "", err |-> "context not found"]
    /\ UNCHANGED <<op, kind, goos, printed, ssh, dials, pc, conn, pfVars, rcVars, exVars>>

\* delete-context: cfg.CurrentContext == name
IsCurrent(cfg, name) == cfg.current = name

\* sitectl config delete-context NAME
DeleteContextCmd ==
    /\ op = "config"
    /\ \E name \in CtxNames :
         /\ args' = Cmd("delete-context", [name |-> name, db |-> ""], FALSE)
         /\ IF IsCurrent(cfgFile, name)
            THEN cfgFile' = cfgFile /\ ret' = [out |-> "", err |-> "cannot delete the current context"]
            ELSE IF ExactMatches(cfgFile, name) = {}
            THEN cfgFile' = cfgFile /\ ret' = [out |-> "", err |-> "context not found"]
            ELSE Save([cfgFile EXCEPT !.contexts = SelectSeq(@, LAMBDA c : c.name # name)],
                      "deleted")
    /\ UNCHANGED <<op, kind, goos, printed, ssh, dials, pc, conn, pfVars, rcVars, exVars>>

NextConfig ==
    \/ CallSaveContext
    \/ SetContextCmd
    \/ UseContextCmd
    \/ DeleteContextCmd

SpecConfig == InitConfig /\ [][NextConfig]_vars

\* the last call was a SaveContext that succeeded
Saved == args.cmd = "SaveContext" /\ ret.err = Nil

\* C21: after SaveContext(ctx, setDefault) succeeds, following any sequence of
\* earlier saves, ContextExists(ctx.Name) is true and GetContext(ctx.Name) returns
\* the context just saved; the file holds one context of that name, and one more
\* context than before only when no context of the name existed; the saved context
\* is the current one when setDefault is true or no current context was set
C21_SaveThenGet ==
    Saved => /\ ContextExists(cfgFile, args.ctx.name)
             /\ GetContext(cfgFile, args.ctx.name) = args.ctx
             /\ Cardinality(ExactMatches(cfgFile, args.ctx.name)) = 1
             /\ Len(cfgFile.contexts) =
                  Len(args.before.contexts) + (IF ContextExists(args.before, args.ctx.name) THEN 0 ELSE 1)
             /\ (args.setDefault \/ args.before.current = "") => cfgFile.current = args.ctx.name

\* C30: after any sequence of set-context, use-context and delete-context
\* commands on an empty configuration, the current context is empty only if there
\* is no context, and otherwise is the name of a context of the list; a
\* delete-context leaves the current context in the list and a use-context that
\* succeeds selects a context of the list
C30_CurrentContextValid ==
    op = "config"
        => /\ cfgFile.current = "" => cfgFile.contexts = <<>>
           /\ cfgFile.current # "" => ExactMatches(cfgFile, cfgFile.current) # {}
           /\ (args.cmd = "delete-context" /\ args.before.current # "")
                => /\ cfgFile.current = args.before.current
                   /\ ExactMatches(cfgFile, cfgFile.current) # {}
           /\ (args.cmd = "use-context" /\ ret.err = Nil)
                => /\ cfgFile.current = args.ctx.name
                   /\ ExactMatches(cfgFile, args.ctx.name) # {}

(***************************************************************************)
(* Every command                                                           *)
(***************************************************************************)
Init == InitPF \/ InitRC \/ InitFile \/ InitExec \/ InitGDU \/ InitBridge

Next == NextPF \/ NextRC \/ NextFile \/ NextExec \/ NextGDU \/ NextBridge

Spec == Init /\ [][Next]_vars

(***************************************************************************)
(* Claims about the ownership of SSH connections                           *)
(***************************************************************************)
\* the command's call chain has returned
ChainReturned == pc = "returned" \/ pfPc = "returned"

====
